---- MODULE Spec2Model ----
(***************************************************************************)
(* The WebGPU cellular-automaton engine of utils/useWebGPUSimulation.ts:   *)
(* the compute kernel (shaderCode, fn main) as a pure operator, and the    *)
(* hook's operations (init, cleanup, runSimulationStep, readGridData,      *)
(* resetSimulation) as actions over the hook's refs and the contents of    *)
(* its buffers.                                                            *)
(***************************************************************************)
EXTENDS Integers, Sequences, FiniteSets, TLC

(***************************************************************************)
(* Bounds of the model.                                                    *)
(***************************************************************************)
\* radius of the neighbourhood: nSize = 2 * MaxRadius + 1 (nSize is odd)
MaxRadius == 1
\* side of the simulated grid (mSize)
GridSize == 3
\* runSimulationStep is not called once frameNum has reached MaxFrames
MaxFrames == 2
\* mSize does not change any more once the devices created and the init
\* calls in flight number MaxDevices
MaxDevices == 3
\* init is not called directly any more once MaxReturned direct calls have
\* returned at its guard
MaxReturned == 2
\* the largest grid size of the dispatches followed invocation by invocation
MaxGridSize == 17
\* the largest grid size and the largest radius of the scans followed pass
\* by pass
MaxScanGrid == 3
MaxScanRadius == 3
\* the most animate callbacks requested, or inside a cycle, at one time
MaxChains == 3
\* the longest text typed into a boundary input
MaxInput == 2

\* the largest i32; the model checker's integers end here too
MaxInt32 == 2147483647

NSize == 2 * MaxRadius + 1

(***************************************************************************)
(* WGSL integer semantics.                                                 *)
(***************************************************************************)
\* i32 % i32: the remainder truncates towards zero and takes the sign of
\* the dividend
I32Rem(a, b) == IF a >= 0 THEN a % b ELSE 0 - ((0 - a) % b)

\* u32(e) of an i32 e: e itself when e >= 0; a negative e is reinterpreted
\* as e + 2^32, which is more than MaxInt32 and stands here as MaxInt32 (it
\* is only ever used as an index, and lies outside every buffer either way)
U32(a) == IF a >= 0 THEN a ELSE MaxInt32

\* u32 arithmetic wraps at 2^32; the products and sums of the kernel are
\* indices and counts far below it, so that they are computed exactly
U32Mul(a, b) == a * b
U32Add(a, b) == a + b

\* array<u32>[i]: WGSL indices are 0-based, sequences 1-based
Load(buf, i) == buf[i + 1]

(***************************************************************************)
(* struct Params: the 22 words of the uniform buffer, by position.         *)
(***************************************************************************)
P_mSize(params) == params[1]
P_nSize(params) == params[2]
P_lowerStable(params, k) == params[3 + 5 * (k - 1)]
P_upperStable(params, k) == params[4 + 5 * (k - 1)]
P_lowerBorn(params, k) == params[5 + 5 * (k - 1)]
P_upperBorn(params, k) == params[6 + 5 * (k - 1)]
P_enabled(params, k) == params[7 + 5 * (k - 1)]

\* mutant: each rule set's enable flag is packed before its thresholds
MutParamsArray(m, n, rd) ==
    << m, n,
       rd.e[1], rd.b[1].lowerStable, rd.b[1].upperStable, rd.b[1].lowerBorn, rd.b[1].upperBorn,
       rd.e[2], rd.b[2].lowerStable, rd.b[2].upperStable, rd.b[2].lowerBorn, rd.b[2].upperBorn,
       rd.e[3], rd.b[3].lowerStable, rd.b[3].upperStable, rd.b[3].lowerBorn, rd.b[3].upperBorn,
       rd.e[4], rd.b[4].lowerStable, rd.b[4].upperStable, rd.b[4].lowerBorn, rd.b[4].upperBorn >>

\* paramsArray of runSimulationStep
ParamsArray(m, n, rd) ==
    << m, n,
       rd.b[1].lowerStable, rd.b[1].upperStable, rd.b[1].lowerBorn, rd.b[1].upperBorn, rd.e[1],
       rd.b[2].lowerStable, rd.b[2].upperStable, rd.b[2].lowerBorn, rd.b[2].upperBorn, rd.e[2],
       rd.b[3].lowerStable, rd.b[3].upperStable, rd.b[3].lowerBorn, rd.b[3].upperBorn, rd.e[3],
       rd.b[4].lowerStable, rd.b[4].upperStable, rd.b[4].lowerBorn, rd.b[4].upperBorn, rd.e[4] >>

(***************************************************************************)
(* fn main of shaderCode, for the invocation global_id = (x, y).           *)
(***************************************************************************)
KernelRadius(params) == P_nSize(params) \div 2

NeighborY(params, y, dy) ==
    I32Rem(y + dy + P_mSize(params), P_mSize(params))

\* mutant: the column is clamped to the grid instead of wrapped
MutNeighborX(params, x, dx) ==
    IF x + dx < 0 THEN 0
    ELSE IF x + dx >= P_mSize(params) THEN P_mSize(params) - 1
    ELSE x + dx

NeighborX(params, x, dx) ==
    I32Rem(x + dx + P_mSize(params), P_mSize(params))

NeighborFlatIndex(params, x, y, dx, dy) ==
    U32Add(U32Mul(U32(NeighborY(params, y, dy)), P_mSize(params)),
           U32(NeighborX(params, x, dx)))

RuleFlatIndex(params, dx, dy) ==
    U32Add(U32Mul(U32(dy + KernelRadius(params)), P_nSize(params)),
           U32(dx + KernelRadius(params)))

\* the four `if (params.enabledK == 1u && rulesK[rule_flat_index] == 1u)`
\* lines of the loop body, for rule set k
CountsNeighbor(params, rules, k, ruleIdx) ==
    P_enabled(params, k) = 1 /\ Load(rules[k], ruleIdx) = 1

\* mutant: the loop body without `if (dx == 0 && dy == 0) { continue; }`
MutScanBody(gridIn, rules, params, x, y, dx, dy, counts) ==
    IF Load(gridIn, NeighborFlatIndex(params, x, y, dx, dy)) = 1
      THEN [k \in 1..4 |->
              IF CountsNeighbor(params, rules, k, RuleFlatIndex(params, dx, dy))
                THEN U32Add(counts[k], 1)
                ELSE counts[k]]
      ELSE counts

\* the loop body at offset (dx, dy): the four counters after it
ScanBody(gridIn, rules, params, x, y, dx, dy, counts) ==
    IF dx = 0 /\ dy = 0
      THEN counts
      ELSE IF Load(gridIn, NeighborFlatIndex(params, x, y, dx, dy)) = 1
             THEN [k \in 1..4 |->
                     IF CountsNeighbor(params, rules, k, RuleFlatIndex(params, dx, dy))
                       THEN U32Add(counts[k], 1)
                       ELSE counts[k]]
             ELSE counts

\* the nested for loops over dy (outer) and dx (inner), both from -radius
\* to radius, entered at (dx, dy) with the counters counts
RECURSIVE ScanLoop(_, _, _, _, _, _, _, _)
ScanLoop(gridIn, rules, params, x, y, dx, dy, counts) ==
    LET radius == KernelRadius(params) IN
    IF dy > radius
      THEN counts
      ELSE IF dx > radius
             THEN ScanLoop(gridIn, rules, params, x, y, 0 - radius, dy + 1, counts)
             ELSE ScanLoop(gridIn, rules, params, x, y, dx + 1, dy,
                           ScanBody(gridIn, rules, params, x, y, dx, dy, counts))

\* mutant: the four counters are declared with the value 1
MutValidNeighborsFromOne(gridIn, rules, params, x, y) ==
    ScanLoop(gridIn, rules, params, x, y,
             0 - KernelRadius(params), 0 - KernelRadius(params),
             [k \in 1..4 |-> 1])

\* mutant: the inner loop of the first row starts one column late
MutValidNeighbors(gridIn, rules, params, x, y) ==
    ScanLoop(gridIn, rules, params, x, y,
             1 - KernelRadius(params), 0 - KernelRadius(params),
             [k \in 1..4 |-> 0])

\* validNeighbors1..4 after the scan
ValidNeighbors(gridIn, rules, params, x, y) ==
    ScanLoop(gridIn, rules, params, x, y,
             0 - KernelRadius(params), 0 - KernelRadius(params),
             [k \in 1..4 |-> 0])

\* mutant: the lower bound of the stable range is exclusive
MutInStable(params, k, c) ==
    c > P_lowerStable(params, k) /\ c <= P_upperStable(params, k)

\* `validNeighborsK >= lowerStableK && validNeighborsK <= upperStableK`
InStable(params, k, c) ==
    c >= P_lowerStable(params, k) /\ c <= P_upperStable(params, k)

\* mutant: a dead cell with no valid alive neighbour is never born
MutInBornPositive(params, k, c) ==
    c > 0 /\ c >= P_lowerBorn(params, k) /\ c <= P_upperBorn(params, k)

\* mutant: the upper bound of the born range is exclusive
MutInBorn(params, k, c) ==
    c >= P_lowerBorn(params, k) /\ c < P_upperBorn(params, k)

\* `validNeighborsK >= lowerBornK && validNeighborsK <= upperBornK`
InBorn(params, k, c) ==
    c >= P_lowerBorn(params, k) /\ c <= P_upperBorn(params, k)

\* mutant: each enabled rule set assigns shouldSurvive its own verdict, so
\* that the last enabled rule set decides
MutShouldSurvive(params, currentState, counts) ==
    LET enabled == { k \in 1..4 : P_enabled(params, k) = 1 }
        last    == CHOOSE k \in enabled : \A j \in enabled : j <= k
    IN  IF enabled # {} /\ currentState = 1 /\ InStable(params, last, counts[last])
          THEN 1 ELSE 0

\* shouldSurvive after the four `if (params.enabledK == 1u)` blocks
ShouldSurvive(params, currentState, counts) ==
    IF \E k \in 1..4 :
          P_enabled(params, k) = 1 /\ currentState = 1 /\ InStable(params, k, counts[k])
      THEN 1 ELSE 0

\* mutant: the born tests are not guarded by the enable flags
MutShouldBeBorn(params, currentState, counts) ==
    IF \E k \in 1..4 : currentState # 1 /\ InBorn(params, k, counts[k])
      THEN 1 ELSE 0

\* shouldBeBorn after the four `if (params.enabledK == 1u)` blocks
ShouldBeBorn(params, currentState, counts) ==
    IF \E k \in 1..4 :
          P_enabled(params, k) = 1 /\ currentState # 1 /\ InBorn(params, k, counts[k])
      THEN 1 ELSE 0

\* mutant: the last comparison of the early exit tests for 1u
MutAllDisabled(params) ==
    /\ P_enabled(params, 1) = 0
    /\ P_enabled(params, 2) = 0
    /\ P_enabled(params, 3) = 0
    /\ P_enabled(params, 4) = 1

\* the early exit of main when all four rule sets are disabled
AllDisabled(params) ==
    /\ P_enabled(params, 1) = 0
    /\ P_enabled(params, 2) = 0
    /\ P_enabled(params, 3) = 0
    /\ P_enabled(params, 4) = 0

\* mutant: main stores the first counter instead of the flags
MutMainCell(gridIn, rules, params, x, y) ==
    LET flat_index   == U32Add(U32Mul(y, P_mSize(params)), x)
        currentState == Load(gridIn, flat_index)
        counts       == ValidNeighbors(gridIn, rules, params, x, y)
    IN  IF AllDisabled(params)
          THEN currentState
          ELSE counts[1]

\* the value main stores at gridOut[flat_index]
MainCell(gridIn, rules, params, x, y) ==
    LET flat_index   == U32Add(U32Mul(y, P_mSize(params)), x)
        currentState == Load(gridIn, flat_index)
        counts       == ValidNeighbors(gridIn, rules, params, x, y)
    IN  IF AllDisabled(params)
          THEN currentState
          ELSE IF currentState = 1
                 THEN ShouldSurvive(params, currentState, counts)
                 ELSE ShouldBeBorn(params, currentState, counts)

\* `let flat_index = global_id.y * mSize + global_id.x;`
FlatIndex(params, x, y) == U32Add(U32Mul(y, P_mSize(params)), x)

\* mutant: Math.floor(mSize / 8)
MutWorkgroupCount(m) == m \div 8

\* Math.ceil(mSize / 8)
WorkgroupCount(m) == (m + 7) \div 8

\* the invocation main(x, y) returns before storing anything
OutOfGrid(params, x, y) == x >= P_mSize(params) \/ y >= P_mSize(params)

\* dispatchWorkgroups(wc, wc) of the 8x8 workgroup: the contents of the
\* output buffer after every invocation has run
Dispatch(gridIn, gridOut, rules, params, wc) ==
    [i \in 1..Len(gridOut) |->
        LET m == P_mSize(params)
            x == (i - 1) % m
            y == (i - 1) \div m
        IN  IF x < 8 * wc /\ y < 8 * wc /\ ~OutOfGrid(params, x, y)
              THEN MainCell(gridIn, rules, params, x, y)
              ELSE gridOut[i]]

(***************************************************************************)
(* Inputs: grids, masks and rule data.                                     *)
(***************************************************************************)
Cells(m) == 1..(m * m)

\* new Uint8Array(size * size)
ZeroGrid(m) == [i \in Cells(m) |-> 0]

\* the grid whose alive cells are the positions in S (1-based, row-major)
GridOf(m, S) == [i \in Cells(m) |-> IF i \in S THEN 1 ELSE 0]

\* the grids fed to the kernel: those with one alive cell (every offset of
\* a neighbourhood is hit alone) and those whose alive cells are the first j
\* in row-major order, from the empty to the full grid (every count occurs)
Grids(m) ==
    { GridOf(m, {i}) : i \in Cells(m) } \cup { GridOf(m, 1..j) : j \in 0..(m * m) }

\* a mask of side n given by the set of offsets << dx, dy >> it marks valid;
\* the entry of the offset is at row dy + radius, column dx + radius
MaskOf(n, valid) ==
    [i \in 1..(n * n) |->
        IF << ((i - 1) % n) - (n \div 2), ((i - 1) \div n) - (n \div 2) >> \in valid
          THEN 1 ELSE 0]

\* initializeConways: the eight cells around the centre
ConwayValid == { o \in {-1, 0, 1} \X {-1, 0, 1} : o # << 0, 0 >> }

\* the western neighbour, and the centre entry set as well
WestValid == { << -1, 0 >>, << 0, 0 >> }

\* the eastern column of the ring around the centre
EastValid == { << 1, -1 >>, << 1, 0 >>, << 1, 1 >> }

\* every entry of a mask of side n, the centre included
FullValid(n) == ((0 - n \div 2)..(n \div 2)) \X ((0 - n \div 2)..(n \div 2))

\* new Uint8Array(nSize * nSize)
NoneValid == {}

Boundaries(ls, us, lb, ub) ==
    [lowerStable |-> ls, upperStable |-> us, lowerBorn |-> lb, upperBorn |-> ub]

\* the rule sets the masks and boundaries of a payload are drawn from:
\*   1 the initial n1 / n1Boundaries of Home (Conway's Life),
\*   2 a shift: a cell is alive next iff its western neighbour is alive,
\*   3 the eastern column, with different stable and born ranges,
\*   4 the full mask with both ranges empty (lower > upper)
RuleCatalogue(n) ==
    << [mask |-> MaskOf(n, ConwayValid), bounds |-> Boundaries(2, 3, 3, 3)],
       [mask |-> MaskOf(n, WestValid),   bounds |-> Boundaries(1, 1, 1, 1)],
       [mask |-> MaskOf(n, EastValid),   bounds |-> Boundaries(0, 1, 2, 3)],
       [mask |-> MaskOf(n, FullValid(n)),   bounds |-> Boundaries(2, 1, 1, 0)] >>

\* the initial n2..n4 and their boundaries in Home: empty mask, all zero
ZeroRule(n) == [mask |-> MaskOf(n, NoneValid), bounds |-> Boundaries(0, 0, 0, 0)]

\* RulesData: n1..n4, b1..b4, e1..e4 as three 4-tuples
RulesDataOf(n, shift, flags) ==
    [n |-> [k \in 1..4 |-> RuleCatalogue(n)[((k - 1 + shift) % 4) + 1].mask],
     b |-> [k \in 1..4 |-> RuleCatalogue(n)[((k - 1 + shift) % 4) + 1].bounds],
     e |-> flags]

Flags == [1..4 -> {0, 1}]

\* the catalogue with rule set k as Home creates n2..n4 (empty mask, all
\* boundaries 0), enabled alone or together with the three others
EmptyRulePayloads(n) ==
    { LET flags == [j \in 1..4 |-> IF j = k THEN 1 ELSE all]
      IN  [n |-> [RulesDataOf(n, 0, flags).n EXCEPT ![k] = ZeroRule(n).mask],
           b |-> [RulesDataOf(n, 0, flags).b EXCEPT ![k] = ZeroRule(n).bounds],
           e |-> flags] :
      k \in 1..4, all \in {0, 1} }

\* the payloads fed to the kernel: the catalogue distributed over the four
\* rule sets in every rotation, under every combination of enable flags
Payloads(n) == { RulesDataOf(n, shift, flags) : shift \in 0..3, flags \in Flags }

(***************************************************************************)
(* State.                                                                  *)
(***************************************************************************)
VARIABLES
    mSize,       \* the hook's first argument
    nSize,       \* the hook's second argument
    mounted,     \* "pending" until the effect runs, "unmounted" after its cleanup
    refs,        \* refs.current: the device that owns each handle, or NULL
    isReady,     \* the isReady state of the hook
    frameNum,    \* frameNum.current
    gpu,         \* the resources created so far, one record per device
    initCalls,   \* the init() calls suspended in an await
    readCall,    \* the readGridData() call suspended in mapAsync, if any
    readResult,  \* what the last completed readGridData() returned
    hist,        \* the generations dispatched since the last reset
    initReturned, \* the direct init() calls that returned at the guard
    grid,        \* Home: the grid state, the grid drawn on the canvas
    rejected,    \* Home: the hook's functions whose promise was rejected
    isRunning,   \* Home: the isRunning state
    isRunningRef, \* Home: isRunningRef.current
    enabled,     \* Home: n1Enabled .. n4Enabled, as 1 or 0
    isEnabled,   \* Home: the isEnabled state
    isUpdatingGridRef, \* Home: isUpdatingGridRef.current
    framePending, \* Home: the callback animationFrameId.current names is pending
    staleFrames, \* Home: the pending animate callbacks no ref names any more
    cycles,      \* Home: the animate callbacks inside a cycle, by position
    boundaries,  \* Home: n1Boundaries
    kIn,         \* kernel alone: the input grid
    kRules,      \* kernel alone: the rule data
    kOut,        \* kernel alone: the output buffer
    kPc,         \* kernel alone: "input" before the dispatch, "done" after
    globalId,    \* one dispatch: the invocations of main that have run
    stored,      \* one dispatch: the indices of gridOut stored to, in order
    neighbors    \* one scan: the offsets passed and their wrapped coordinates

engineVars == << mSize, nSize, mounted, refs, isReady, frameNum, gpu, initCalls,
                 readCall, readResult, hist, initReturned >>
kernelVars == << kIn, kRules, kOut, kPc, globalId, stored, neighbors >>
\* the variables of the hook and of the kernel alone
hookVars == << mSize, nSize, mounted, refs, isReady, frameNum, gpu, initCalls,
               readCall, readResult, hist, initReturned, kIn, kRules, kOut, kPc, globalId, stored, neighbors >>
\* the state of the component that uses the hook
\* the state of Home's animation loop
animVars == << isRunning, isRunningRef, enabled, isEnabled, isUpdatingGridRef,
               framePending, staleFrames, cycles >>
homeVars == << grid, rejected, animVars, boundaries >>
vars == << hookVars, homeVars >>

NULL == 0

\* the object refs is initialised with, and reset to by the cleanup
NullRefs ==
    [device |-> NULL, pipeline |-> NULL, gridBufferA |-> NULL, gridBufferB |-> NULL,
     rulesBuffer1 |-> NULL, rulesBuffer2 |-> NULL, rulesBuffer3 |-> NULL,
     rulesBuffer4 |-> NULL, paramsBuffer |-> NULL, stagingBuffer |-> NULL,
     bindGroupA |-> NULL, bindGroupB |-> NULL, isDestroying |-> FALSE]

\* entries 0 and 1 of commonEntries(bufferA, bufferB)
CommonEntries(bufferA, bufferB) == [input |-> bufferA, output |-> bufferB]

\* bindGroupA as init creates it
BindGroupA == CommonEntries("gridBufferA", "gridBufferB")

\* mutant: both bind groups bind the buffers the same way round
MutBindGroupB == CommonEntries("gridBufferA", "gridBufferB")

\* bindGroupB as init creates it
BindGroupB == CommonEntries("gridBufferB", "gridBufferA")

\* what init creates on a fresh device for a hook of sizes m, n; createBuffer
\* zero-fills
Resources(m, n) ==
    [destroyed     |-> FALSE,
     gridBufferA   |-> [i \in 1..(m * m) |-> 0],
     gridBufferB   |-> [i \in 1..(m * m) |-> 0],
     rulesBuffer   |-> [k \in 1..4 |-> [i \in 1..(n * n) |-> 0]],
     paramsBuffer  |-> [i \in 1..22 |-> 0],
     stagingBuffer |-> [i \in 1..(m * m) |-> 0],
     stagingMapped |-> FALSE,
     bindGroupA    |-> BindGroupA,
     bindGroupB    |-> BindGroupB]

\* the objects of a destroyed device hold no data any more
Destroyed ==
    [destroyed     |-> TRUE,
     gridBufferA   |-> << >>,
     gridBufferB   |-> << >>,
     rulesBuffer   |-> << >>,
     paramsBuffer  |-> << >>,
     stagingBuffer |-> << >>,
     stagingMapped |-> FALSE,
     bindGroupA    |-> BindGroupA,
     bindGroupB    |-> BindGroupB]

NoCall == [device |-> NULL, bytes |-> 0, source |-> "none", frame |-> 0, expect |-> << >>]
NoRead == [status |-> "none", grid |-> << >>]
ReadNull == [status |-> "null", grid |-> << >>]
\* useState<Uint8Array | null>(null)
NoGrid == << >>

\* Home's animation loop after the first render: not running, the first
\* mask enabled alone, no cycle begun, no callback requested
\* useState<Boundaries>({ lowerStable: 2, upperStable: 3, lowerBorn: 3,
\* upperBorn: 3 })
InitialBoundaries == [lowerStable |-> 2, upperStable |-> 3, lowerBorn |-> 3, upperBorn |-> 3]

AnimationIdle ==
    /\ isRunning = FALSE
    /\ isRunningRef = FALSE
    /\ enabled = << 1, 0, 0, 0 >>
    /\ isEnabled = TRUE
    /\ isUpdatingGridRef = FALSE
    /\ framePending = FALSE
    /\ staleFrames = 0
    /\ cycles = << >>
NoHist == [reset |-> FALSE, parity |-> -1, n |-> 0, gen |-> << >>]

EngineInit ==
    /\ mSize = GridSize
    /\ nSize = NSize
    /\ mounted = "pending"
    /\ refs = NullRefs
    /\ isReady = FALSE
    /\ frameNum = 0
    /\ gpu = << >>
    /\ initCalls = << >>
    /\ readCall = NoCall
    /\ readResult = NoRead
    /\ hist = NoHist
    /\ initReturned = 0
    /\ grid = NoGrid
    /\ rejected = {}
    /\ AnimationIdle
    /\ boundaries = InitialBoundaries

KernelIdle ==
    /\ kIn = << >>
    /\ kRules = << >>
    /\ kOut = << >>
    /\ kPc = "idle"
    /\ globalId = 0
    /\ stored = << >>
    /\ neighbors = << >>

(***************************************************************************)
(* Device operations.                                                      *)
(***************************************************************************)
\* device.queue.writeBuffer(buf, 0, data): data overwrites the head of buf
WriteBuffer(buf, data) ==
    [i \in 1..Len(buf) |-> IF i <= Len(data) THEN data[i] ELSE buf[i]]

\* mutant: the copy is encoded but never submitted
MutCopyBufferToBuffer(src, dst, size) == dst

\* commandEncoder.copyBufferToBuffer(src, 0, dst, 0, size), size in words
CopyBufferToBuffer(src, dst, size) ==
    [i \in 1..Len(dst) |-> IF i <= size THEN src[i] ELSE dst[i]]

\* new Uint32Array(a) of a Uint8Array a: every byte fits a word
ToUint32Array(a) == [i \in 1..Len(a) |-> a[i]]

\* mutant: new Uint8Array(a.buffer), the four bytes of every word (little
\* endian) instead of one element per word
MutToUint8Array(a) ==
    [i \in 1..(4 * Len(a)) |->
        IF (i - 1) % 4 = 0 THEN a[((i - 1) \div 4) + 1] % 256 ELSE 0]

\* new Uint8Array(a) of a Uint32Array a: each element modulo 2^8
ToUint8Array(a) == [i \in 1..Len(a) |-> a[i] % 256]

\* mutant: the parity test of setBindGroup inverted
MutSelectBindGroup(frame) == IF frame % 2 = 0 THEN "bindGroupB" ELSE "bindGroupA"

\* the bind group runSimulationStep passes to setBindGroup
SelectBindGroup(frame) == IF frame % 2 = 0 THEN "bindGroupA" ELSE "bindGroupB"

\* mutant: the parity test of currentResultBuffer inverted
MutCurrentResultBuffer(frame) == IF frame % 2 = 0 THEN "gridBufferB" ELSE "gridBufferA"

\* currentResultBuffer of readGridData
CurrentResultBuffer(frame) == IF frame % 2 = 0 THEN "gridBufferA" ELSE "gridBufferB"

\* mutant: the mask of a disabled rule set is not uploaded
MutUpload(g, m, n, rd, j) ==
    [g EXCEPT
       !.rulesBuffer  = [k \in 1..4 |-> IF k <= j /\ rd.e[k] = 1
                                           THEN WriteBuffer(@[k], ToUint32Array(rd.n[k]))
                                           ELSE @[k]],
       !.paramsBuffer = IF j >= 5 THEN WriteBuffer(@, ParamsArray(m, n, rd)) ELSE @]

\* the resources g after the first j of the five writeBuffer calls of
\* runSimulationStep (four masks, then the parameters)
Upload(g, m, n, rd, j) ==
    [g EXCEPT
       !.rulesBuffer  = [k \in 1..4 |-> IF k <= j THEN WriteBuffer(@[k], ToUint32Array(rd.n[k]))
                                                  ELSE @[k]],
       !.paramsBuffer = IF j >= 5 THEN WriteBuffer(@, ParamsArray(m, n, rd)) ELSE @]

\* the resources g after the compute pass of runSimulationStep at frame
EncodeAndSubmit(g, m, frame) ==
    LET bg == g[SelectBindGroup(frame)] IN
    [g EXCEPT ![bg.output] =
        Dispatch(g[bg.input], g[bg.output], g.rulesBuffer, g.paramsBuffer,
                 WorkgroupCount(m))]

\* one generation of the grid G under the rule data rd
NextGeneration(G, m, n, rd) ==
    Dispatch(G, G, rd.n, ParamsArray(m, n, rd), WorkgroupCount(m))

(***************************************************************************)
(* init and the effect that calls it.                                      *)
(***************************************************************************)
\* mutant: only the destroying flag is tested
MutInitReturnsEarly == refs.isDestroying

\* `if (refs.current.device || refs.current.isDestroying) return;`
InitReturnsEarly == refs.device # NULL \/ refs.isDestroying

\* init() past its guard, up to requestAdapter, for the grid size m of its
\* closure. hasGpu: navigator.gpu
InitBegins(m, hasGpu) ==
    /\ isReady' = FALSE
    /\ initCalls' =
         IF hasGpu
           THEN Append(initCalls,
                       [await |-> "requestAdapter", mSize |-> m, nSize |-> nSize])
           ELSE initCalls

\* the effect body on mount
EffectRun(hasGpu) ==
    /\ mounted = "pending"
    /\ mounted' = "mounted"
    /\ IF InitReturnsEarly
         THEN UNCHANGED << isReady, initCalls >>
         ELSE InitBegins(mSize, hasGpu)
    /\ UNCHANGED << mSize, nSize, refs, frameNum, gpu, readCall, readResult,
                    hist,
                    initReturned, kIn, kRules, kOut, kPc, globalId, stored, neighbors >>

\* init() called directly, whatever the engine's state
InitCall(hasGpu) ==
    /\ IF InitReturnsEarly
         THEN /\ initReturned < MaxReturned
              /\ initReturned' = initReturned + 1
              /\ UNCHANGED << isReady, initCalls >>
         ELSE /\ Len(gpu) + Len(initCalls) < MaxDevices
              /\ InitBegins(mSize, hasGpu)
              /\ UNCHANGED initReturned
    /\ UNCHANGED << mSize, nSize, mounted, refs, frameNum, gpu, readCall, readResult,
                    hist,
                    kIn, kRules, kOut, kPc, globalId, stored, neighbors >>

RemoveAt(seq, i) == [j \in 1..(Len(seq) - 1) |-> IF j < i THEN seq[j] ELSE seq[j + 1]]

\* mutant: isReady is set when init returns for want of an adapter
MutInitAdapter(i, adapter) ==
    /\ i \in 1..Len(initCalls)
    /\ initCalls[i].await = "requestAdapter"
    /\ initCalls' = IF adapter
                      THEN [initCalls EXCEPT ![i].await = "requestDevice"]
                      ELSE RemoveAt(initCalls, i)
    /\ isReady' = IF adapter THEN isReady ELSE TRUE
    /\ UNCHANGED << mSize, nSize, mounted, refs, frameNum, gpu, readCall,
                    readResult, hist,
                    initReturned, kIn, kRules, kOut, kPc, globalId, stored, neighbors >>

\* requestAdapter resolves for the i-th suspended init(): with no adapter
\* init returns, otherwise it requests the device
InitAdapter(i, adapter) ==
    /\ i \in 1..Len(initCalls)
    /\ initCalls[i].await = "requestAdapter"
    /\ initCalls' = IF adapter
                      THEN [initCalls EXCEPT ![i].await = "requestDevice"]
                      ELSE RemoveAt(initCalls, i)
    /\ UNCHANGED << mSize, nSize, mounted, refs, isReady, frameNum, gpu, readCall,
                    readResult, hist,
                    initReturned, kIn, kRules, kOut, kPc, globalId, stored, neighbors >>

\* the promise the i-th suspended init() awaits is rejected: nothing catches
\* the exception inside init
InitRejects(i) ==
    /\ i \in 1..Len(initCalls)
    /\ initCalls' = RemoveAt(initCalls, i)
    /\ UNCHANGED << mSize, nSize, mounted, refs, isReady, frameNum, gpu, readCall,
                    readResult, hist,
                    initReturned, kIn, kRules, kOut, kPc, globalId, stored, neighbors >>

\* a device on which init has created no buffer yet
Unallocated == [Destroyed EXCEPT !.destroyed = FALSE]

\* requestDevice resolves for the i-th suspended init(), the device is stored
\* and the creation of the shader module or of the pipeline throws
InitDeviceThrows(i) ==
    /\ i \in 1..Len(initCalls)
    /\ initCalls[i].await = "requestDevice"
    /\ gpu' = Append(gpu, Unallocated)
    /\ refs' = [refs EXCEPT !.device = Len(gpu) + 1]
    /\ initCalls' = RemoveAt(initCalls, i)
    /\ UNCHANGED << mSize, nSize, mounted, isReady, frameNum, readCall, readResult,
                    hist,
                    initReturned, kIn, kRules, kOut, kPc, globalId, stored, neighbors >>

\* requestDevice resolves for the i-th suspended init(): the rest of init
\* runs without suspending
InitDevice(i) ==
    /\ i \in 1..Len(initCalls)
    /\ initCalls[i].await = "requestDevice"
    /\ LET d == Len(gpu) + 1 IN
         /\ gpu' = Append(gpu, Resources(initCalls[i].mSize, initCalls[i].nSize))
         /\ refs' = [device |-> d, pipeline |-> d, gridBufferA |-> d, gridBufferB |-> d,
                     rulesBuffer1 |-> d, rulesBuffer2 |-> d, rulesBuffer3 |-> d,
                     rulesBuffer4 |-> d, paramsBuffer |-> d, stagingBuffer |-> d,
                     bindGroupA |-> d, bindGroupB |-> d,
                     isDestroying |-> refs.isDestroying]
    /\ isReady' = TRUE
    /\ initCalls' = RemoveAt(initCalls, i)
    /\ hist' = [reset |-> FALSE, parity |-> -1, n |-> 0,
                gen |-> ZeroGrid(initCalls[i].mSize)]
    /\ UNCHANGED << mSize, nSize, mounted, frameNum, readCall, readResult,
                    initReturned, kIn, kRules, kOut, kPc, globalId, stored, neighbors >>

\* the handles the cleanup tries to destroy
BufferNames == { "gridBufferA", "gridBufferB", "rulesBuffer1", "rulesBuffer2",
                 "rulesBuffer3", "rulesBuffer4", "paramsBuffer", "stagingBuffer" }
ReleaseNames == BufferNames \cup { "pipeline", "device" }

\* what the browser's objects do: a GPUComputePipeline has no destroy method,
\* so the call on it throws a TypeError; destroy() of a buffer or of a device
\* does not throw
PipelineFails == { {"pipeline"} }

\* the device g after the destroy calls of the cleanup, those on the handles
\* in failed having thrown: destroying the device destroys its buffers
DestroyAll(g, failed) ==
    IF "device" \notin failed
      THEN Destroyed
      ELSE [g EXCEPT
              !.gridBufferA   = IF "gridBufferA" \in failed THEN @ ELSE << >>,
              !.gridBufferB   = IF "gridBufferB" \in failed THEN @ ELSE << >>,
              !.rulesBuffer   = [k \in 1..4 |->
                                   IF << "rulesBuffer1", "rulesBuffer2", "rulesBuffer3",
                                         "rulesBuffer4" >>[k] \in failed
                                     THEN @[k] ELSE << >>],
              !.paramsBuffer  = IF "paramsBuffer" \in failed THEN @ ELSE << >>,
              !.stagingBuffer = IF "stagingBuffer" \in failed THEN @ ELSE << >>,
              !.stagingMapped = IF "stagingBuffer" \in failed THEN @ ELSE FALSE]

\* mutant: the destroy calls are not wrapped in try/catch, so the first one
\* that throws ends the cleanup with isDestroying set and the handles kept
MutDestroyResources(failed) ==
    IF refs.device # NULL
      THEN IF failed = {}
             THEN /\ gpu' = [gpu EXCEPT ![refs.device] = Destroyed]
                  /\ refs' = NullRefs
             ELSE /\ gpu' = gpu
                  /\ refs' = [refs EXCEPT !.isDestroying = TRUE]
      ELSE UNCHANGED << gpu, refs >>

\* the body of the cleanup of the effect. It runs to completion without
\* suspending: isDestroying is set at its start and cleared with the handles
\* at its end, every exception of a destroy call is caught and ignored, and
\* no other callback runs in between
DestroyResources(failed) ==
    IF refs.device # NULL
      THEN /\ gpu' = [gpu EXCEPT ![refs.device] = DestroyAll(@, failed)]
           /\ refs' = NullRefs
      ELSE UNCHANGED << gpu, refs >>

\* the cleanup of the effect on unmount
Cleanup(failed) ==
    /\ mounted = "mounted"
    /\ DestroyResources(failed)
    /\ mounted' = "unmounted"
    /\ UNCHANGED << mSize, nSize, isReady, frameNum, initCalls, readCall, readResult,
                    hist,
                    initReturned, kIn, kRules, kOut, kPc, globalId, stored, neighbors >>

\* the grid sizes calculateGridSize sets: the container's width, made odd
GridSizes == { GridSize, GridSize + 2 }

\* mSize changes (setMSize of calculateGridSize): init is a new callback, so
\* the effect is cleaned up and run again; init() tests its guard on the
\* handles the cleanup has left
DepsChange(m, hasGpu, failed) ==
    /\ mounted = "mounted"
    /\ m # mSize
    /\ Len(gpu) + Len(initCalls) < MaxDevices
    /\ mSize' = m
    /\ DestroyResources(failed)
    /\ IF InitReturnsEarly'
         THEN UNCHANGED << isReady, initCalls >>
         ELSE InitBegins(m, hasGpu)
    /\ UNCHANGED << nSize, mounted, frameNum, readCall, readResult,
                    hist,
                    initReturned, kIn, kRules, kOut, kPc, globalId, stored, neighbors >>

(***************************************************************************)
(* Inputs of the engine's operations.                                      *)
(***************************************************************************)
\* the grids passed to resetSimulation: the cleared grid of handleClear and
\* of the isReady effect, and a grid with one alive cell
ResetGrids(m) == { ZeroGrid(m), GridOf(m, {1}) }

\* the rule data passed to runSimulationStep: the catalogue in its first
\* rotation with Conway's rule alone (the initial state of Home) or the
\* shift rule alone
StepFlags == { <<1, 0, 0, 0>>, <<0, 1, 0, 0>> }
StepRulesOf(n) == { RulesDataOf(n, 0, flags) : flags \in StepFlags }

\* the same, tabulated for the neighbourhood sizes of the model
StepRules == [n \in {NSize} |-> StepRulesOf(n)]

(***************************************************************************)
(* runSimulationStep.                                                      *)
(***************************************************************************)
\* the guard of runSimulationStep: true when the call goes on
StepGuard ==
    /\ isReady
    /\ ~refs.isDestroying
    /\ refs.device # NULL
    /\ refs.pipeline # NULL
    /\ refs.paramsBuffer # NULL
    /\ refs.bindGroupA # NULL
    /\ refs.bindGroupB # NULL

\* a call that passes the guard and throws nothing
RunSimulationStep(rd) ==
    /\ StepGuard
    /\ frameNum < MaxFrames
    /\ gpu' = [gpu EXCEPT ![refs.device] =
                  EncodeAndSubmit(Upload(@, mSize, nSize, rd, 5), mSize, frameNum)]
    /\ frameNum' = frameNum + 1
    /\ hist' = [hist EXCEPT !.n = @ + 1,
                            !.gen = NextGeneration(@, mSize, nSize, rd)]
    /\ UNCHANGED << mSize, nSize, mounted, refs, isReady, initCalls, readCall,
                    readResult,
                    initReturned, kIn, kRules, kOut, kPc, globalId, stored, neighbors >>

\* mutant: frameNum is incremented in a finally block, thrown or not
MutRunSimulationStepThrows(rd, j) ==
    /\ StepGuard
    /\ j \in 0..5
    /\ frameNum < MaxFrames
    /\ gpu' = [gpu EXCEPT ![refs.device] = Upload(@, mSize, nSize, rd, j)]
    /\ frameNum' = frameNum + 1
    /\ UNCHANGED << mSize, nSize, mounted, refs, isReady, initCalls,
                    readCall, readResult, hist,
                    initReturned, kIn, kRules, kOut, kPc, globalId, stored, neighbors >>

\* a call that passes the guard and throws after j of its writeBuffer calls
\* (j = 5: while encoding or submitting); the catch block logs the error
RunSimulationStepThrows(rd, j) ==
    /\ StepGuard
    /\ j \in 0..5
    /\ gpu' = [gpu EXCEPT ![refs.device] = Upload(@, mSize, nSize, rd, j)]
    /\ UNCHANGED << mSize, nSize, mounted, refs, isReady, frameNum, initCalls,
                    readCall, readResult, hist,
                    initReturned, kIn, kRules, kOut, kPc, globalId, stored, neighbors >>

\* a call that returns at the guard
RunSimulationStepReturns ==
    /\ ~StepGuard
    /\ UNCHANGED hookVars

(***************************************************************************)
(* readGridData.                                                           *)
(***************************************************************************)
ReadGuard ==
    /\ isReady
    /\ ~refs.isDestroying
    /\ refs.device # NULL
    /\ refs.stagingBuffer # NULL
    /\ refs.gridBufferA # NULL
    /\ refs.gridBufferB # NULL

\* a call that passes the guard: the copy is submitted and the call
\* suspends in mapAsync
ReadGridData ==
    /\ ReadGuard
    /\ readCall.device = NULL
    /\ ~gpu[refs.device].stagingMapped
    /\ LET d   == refs.device
           src == CurrentResultBuffer(frameNum)
       IN  /\ gpu' = [gpu EXCEPT ![d].stagingBuffer =
                         CopyBufferToBuffer(gpu[d][src], @, mSize * mSize)]
           /\ readCall' = [device |-> d, bytes |-> mSize * mSize, source |-> src,
                           frame |-> frameNum, expect |-> hist.gen]
    /\ UNCHANGED << mSize, nSize, mounted, refs, isReady, frameNum, initCalls,
                    readResult, hist,
                    initReturned, kIn, kRules, kOut, kPc, globalId, stored, neighbors >>

\* mutant: the suspended call goes on after its buffer was destroyed and
\* returns what is left of the mapped range
MutReadMapResolves ==
    /\ readCall.device # NULL
    /\ readResult' =
         [status |-> "grid",
          grid   |-> IF gpu[readCall.device].destroyed
                       THEN << >>
                       ELSE ToUint8Array(SubSeq(gpu[readCall.device].stagingBuffer,
                                                1, readCall.bytes))]
    /\ readCall' = NoCall
    /\ UNCHANGED << mSize, nSize, mounted, refs, isReady, frameNum, gpu, initCalls,
                    hist,
                    initReturned, kIn, kRules, kOut, kPc, globalId, stored, neighbors >>

\* mapAsync resolves: the mapped range is copied, the buffer unmapped and
\* the copy returned as a Uint8Array. destroy() of a buffer rejects its
\* pending map, so the promise only resolves for a buffer not destroyed
ReadMapResolves ==
    /\ readCall.device # NULL
    /\ ~gpu[readCall.device].destroyed
    /\ readResult' = [status |-> "grid",
                      grid   |-> ToUint8Array(SubSeq(gpu[readCall.device].stagingBuffer,
                                                     1, readCall.bytes))]
    /\ readCall' = NoCall
    /\ UNCHANGED << mSize, nSize, mounted, refs, isReady, frameNum, gpu, initCalls,
                    hist,
                    initReturned, kIn, kRules, kOut, kPc, globalId, stored, neighbors >>

\* mapAsync rejects: the catch block returns null
ReadMapRejects ==
    /\ readCall.device # NULL
    /\ readResult' = ReadNull
    /\ readCall' = NoCall
    /\ UNCHANGED << mSize, nSize, mounted, refs, isReady, frameNum, gpu, initCalls,
                    hist,
                    initReturned, kIn, kRules, kOut, kPc, globalId, stored, neighbors >>

\* a call that passes the guard and throws while encoding or submitting the
\* copy, before mapAsync: the catch block returns null
ReadGridDataThrows ==
    /\ ReadGuard
    /\ readResult' = ReadNull
    /\ UNCHANGED << mSize, nSize, mounted, refs, isReady, frameNum, gpu, initCalls,
                    readCall, hist,
                    initReturned, kIn, kRules, kOut, kPc, globalId, stored, neighbors >>

\* mapAsync resolves and getMappedRange, or the copy of the mapped range,
\* throws: the catch block returns null, and unmap() has not been called
ReadMappedRangeThrows ==
    /\ readCall.device # NULL
    /\ ~gpu[readCall.device].destroyed
    /\ gpu' = [gpu EXCEPT ![readCall.device].stagingMapped = TRUE]
    /\ readResult' = ReadNull
    /\ readCall' = NoCall
    /\ UNCHANGED << mSize, nSize, mounted, refs, isReady, frameNum, initCalls,
                    hist,
                    initReturned, kIn, kRules, kOut, kPc, globalId, stored, neighbors >>

\* a call that passes the guard while the staging buffer is mapped: the
\* submit of the copy is a validation error, which does not throw, and
\* mapAsync of a mapped buffer rejects at once: the catch block returns null
ReadMapRefused ==
    /\ ReadGuard
    /\ gpu[refs.device].stagingMapped
    /\ readResult' = ReadNull
    /\ UNCHANGED << mSize, nSize, mounted, refs, isReady, frameNum, gpu, initCalls,
                    readCall, hist,
                    initReturned, kIn, kRules, kOut, kPc, globalId, stored, neighbors >>

\* a call that returns null at the guard
ReadGridDataReturns ==
    /\ ~ReadGuard
    /\ readResult' = ReadNull
    /\ UNCHANGED << mSize, nSize, mounted, refs, isReady, frameNum, gpu, initCalls,
                    readCall, hist,
                    initReturned, kIn, kRules, kOut, kPc, globalId, stored, neighbors >>

(***************************************************************************)
(* resetSimulation.                                                        *)
(***************************************************************************)
ResetGuard ==
    /\ isReady
    /\ ~refs.isDestroying
    /\ refs.device # NULL
    /\ refs.gridBufferA # NULL
    /\ refs.gridBufferB # NULL

\* mutant: only the first grid buffer is written
MutResetSimulation(newGrid) ==
    /\ ResetGuard
    /\ LET gridData == ToUint32Array(newGrid) IN
       gpu' = [gpu EXCEPT ![refs.device] =
                  [@ EXCEPT !.gridBufferA = WriteBuffer(@, gridData)]]
    /\ frameNum' = 0
    /\ hist' = [reset |-> TRUE, parity |-> frameNum % 2, n |-> 0, gen |-> newGrid]
    /\ UNCHANGED << mSize, nSize, mounted, refs, isReady, initCalls, readCall,
                    readResult,
                    initReturned, kIn, kRules, kOut, kPc, globalId, stored, neighbors >>

ResetSimulation(newGrid) ==
    /\ ResetGuard
    /\ LET gridData == ToUint32Array(newGrid) IN
       gpu' = [gpu EXCEPT ![refs.device] =
                  [@ EXCEPT !.gridBufferA = WriteBuffer(@, gridData),
                            !.gridBufferB = WriteBuffer(@, gridData)]]
    /\ frameNum' = 0
    /\ hist' = [reset |-> TRUE, parity |-> frameNum % 2, n |-> 0, gen |-> newGrid]
    /\ UNCHANGED << mSize, nSize, mounted, refs, isReady, initCalls, readCall,
                    readResult,
                    initReturned, kIn, kRules, kOut, kPc, globalId, stored, neighbors >>

\* mutant: frameNum is cleared before the guard is tested
MutResetSimulationReturns ==
    /\ ~ResetGuard
    /\ frameNum' = 0
    /\ UNCHANGED << mSize, nSize, mounted, refs, isReady, gpu, initCalls, readCall,
                    readResult, hist,
                    initReturned, kIn, kRules, kOut, kPc, globalId, stored, neighbors >>

\* a call that passes the guard and throws in its first writeBuffer (j = 0)
\* or in its second (j = 1): nothing catches the exception
ResetSimulationThrows(newGrid, j) ==
    /\ ResetGuard
    /\ j \in 0..1
    /\ gpu' = [gpu EXCEPT ![refs.device].gridBufferA =
                  IF j >= 1 THEN WriteBuffer(@, ToUint32Array(newGrid)) ELSE @]
    /\ UNCHANGED << mSize, nSize, mounted, refs, isReady, frameNum, initCalls,
                    readCall, readResult, hist,
                    initReturned, kIn, kRules, kOut, kPc, globalId, stored, neighbors >>

\* a call that returns at the guard
ResetSimulationReturns ==
    /\ ~ResetGuard
    /\ UNCHANGED hookVars

(***************************************************************************)
(* The engine.                                                             *)
(***************************************************************************)
Init == EngineInit /\ KernelIdle

Next ==
    \/ \E hasGpu \in BOOLEAN : EffectRun(hasGpu) /\ UNCHANGED homeVars
    \/ \E i \in 1..Len(initCalls), adapter \in BOOLEAN : InitAdapter(i, adapter) /\ UNCHANGED homeVars
    \/ \E i \in 1..Len(initCalls) : InitDevice(i) /\ UNCHANGED homeVars
    \/ \E failed \in PipelineFails : Cleanup(failed) /\ UNCHANGED homeVars
    \/ \E rd \in StepRules[nSize] : RunSimulationStep(rd) /\ UNCHANGED homeVars
    \/ \E rd \in StepRules[nSize], j \in 0..5 : RunSimulationStepThrows(rd, j) /\ UNCHANGED homeVars
    \/ RunSimulationStepReturns /\ UNCHANGED homeVars
    \/ ReadGridData /\ UNCHANGED homeVars
    \/ ReadMapResolves /\ UNCHANGED homeVars
    \/ ReadMapRejects /\ UNCHANGED homeVars
    \/ ReadGridDataReturns /\ UNCHANGED homeVars
    \/ ReadGridDataThrows /\ UNCHANGED homeVars
    \/ \E newGrid \in ResetGrids(mSize) : ResetSimulation(newGrid) /\ UNCHANGED homeVars
    \/ ResetSimulationReturns /\ UNCHANGED homeVars

Spec == Init /\ [][Next]_vars

(***************************************************************************)
(* Home: the component that calls the hook's functions. animate calls      *)
(* runSimulationStep and readGridData and shows what the read returns;    *)
(* handleRandomize, handleClear and the isReady effect show a grid and     *)
(* pass it to resetSimulation.                                             *)
(***************************************************************************)
\* mutant: setGrid(nextGrid) without the test
MutNextGrid(shown, result) == result.grid

\* `if (nextGrid) { setGrid(nextGrid); }`: the grid state after animate has
\* received result from readGridData
NextGrid(shown, result) == IF result.status = "grid" THEN result.grid ELSE shown

HomeNext ==
    \/ \E hasGpu \in BOOLEAN : EffectRun(hasGpu) /\ UNCHANGED homeVars
    \/ \E i \in 1..Len(initCalls), adapter \in BOOLEAN : InitAdapter(i, adapter) /\ UNCHANGED homeVars
    \/ \E i \in 1..Len(initCalls) : InitDevice(i) /\ UNCHANGED homeVars
    \/ \E failed \in PipelineFails : Cleanup(failed) /\ UNCHANGED homeVars
    \/ \E rd \in StepRules[nSize] : RunSimulationStep(rd) /\ UNCHANGED homeVars
    \/ \E rd \in StepRules[nSize] : RunSimulationStepThrows(rd, 5) /\ UNCHANGED homeVars
    \/ ReadGridData /\ UNCHANGED homeVars
    \/ ReadMapResolves /\ grid' = NextGrid(grid, readResult') /\ UNCHANGED << rejected, animVars, boundaries >>
    \/ ReadMapRejects /\ grid' = NextGrid(grid, readResult') /\ UNCHANGED << rejected, animVars, boundaries >>
    \/ ReadGridDataThrows /\ grid' = NextGrid(grid, readResult') /\ UNCHANGED << rejected, animVars, boundaries >>
    \/ ReadGridDataReturns /\ grid' = NextGrid(grid, readResult') /\ UNCHANGED << rejected, animVars, boundaries >>
    \/ \E newGrid \in ResetGrids(mSize) : ResetSimulation(newGrid) /\ grid' = newGrid /\ UNCHANGED << rejected, animVars, boundaries >>
    \/ \E newGrid \in ResetGrids(mSize) : ResetSimulationReturns /\ grid' = newGrid /\ UNCHANGED << rejected, animVars, boundaries >>

HomeSpec == Init /\ [][HomeNext]_vars

(***************************************************************************)
(* Home with failing device calls: every call into the device that the    *)
(* hook makes may throw, every promise it awaits may be rejected.          *)
(***************************************************************************)
FaultNext ==
    \/ \E hasGpu \in BOOLEAN : EffectRun(hasGpu) /\ UNCHANGED homeVars
    \/ \E i \in 1..Len(initCalls), adapter \in BOOLEAN : InitAdapter(i, adapter) /\ UNCHANGED homeVars
    \/ \E i \in 1..Len(initCalls) : InitDevice(i) /\ UNCHANGED homeVars
    \/ \E i \in 1..Len(initCalls) :
          InitRejects(i) /\ rejected' = rejected \cup {"init"} /\ UNCHANGED << grid, animVars, boundaries >>
    \/ \E i \in 1..Len(initCalls) :
          InitDeviceThrows(i) /\ rejected' = rejected \cup {"init"} /\ UNCHANGED << grid, animVars, boundaries >>
    \/ \E failed \in PipelineFails : Cleanup(failed) /\ UNCHANGED homeVars
    \/ \E rd \in StepRules[nSize] : RunSimulationStep(rd) /\ UNCHANGED homeVars
    \/ \E rd \in StepRules[nSize] : RunSimulationStepThrows(rd, 5) /\ UNCHANGED homeVars
    \/ ReadGridData /\ UNCHANGED homeVars
    \/ ReadMapResolves /\ grid' = NextGrid(grid, readResult') /\ UNCHANGED << rejected, animVars, boundaries >>
    \/ ReadMapRejects /\ grid' = NextGrid(grid, readResult') /\ UNCHANGED << rejected, animVars, boundaries >>
    \/ ReadGridDataThrows /\ grid' = NextGrid(grid, readResult') /\ UNCHANGED << rejected, animVars, boundaries >>
    \/ ReadMappedRangeThrows /\ grid' = NextGrid(grid, readResult') /\ UNCHANGED << rejected, animVars, boundaries >>
    \/ ReadMapRefused /\ grid' = NextGrid(grid, readResult') /\ UNCHANGED << rejected, animVars, boundaries >>
    \/ ReadGridDataReturns /\ grid' = NextGrid(grid, readResult') /\ UNCHANGED << rejected, animVars, boundaries >>
    \/ \E newGrid \in ResetGrids(mSize) : ResetSimulation(newGrid) /\ grid' = newGrid /\ UNCHANGED << rejected, animVars, boundaries >>
    \/ \E newGrid \in ResetGrids(mSize), j \in 0..1 :
          ResetSimulationThrows(newGrid, j) /\ grid' = newGrid
                                            /\ rejected' = rejected \cup {"resetSimulation"}
                                            /\ UNCHANGED << animVars, boundaries >>
    \/ \E newGrid \in ResetGrids(mSize) : ResetSimulationReturns /\ grid' = newGrid /\ UNCHANGED << rejected, animVars, boundaries >>

FaultSpec == Init /\ [][FaultNext]_vars

(***************************************************************************)
(* Home's animation loop. A render and the effects it triggers are one     *)
(* step (the effects of a commit run in the order they are declared, and   *)
(* no callback runs between them); the resumption of animate after         *)
(* `await runSimulationStep(...)`, whose promise is settled when it is     *)
(* returned, is a microtask, so nothing runs between the step and the      *)
(* call of readGridData.                                                   *)
(***************************************************************************)
\* rulesDataRef.current: Home's rule data (Conway's rule in n1, n2..n4 as
\* created) under the enable flags
HomeRules(n, flags) ==
    [n |-> [k \in 1..4 |-> IF k = 1 THEN RuleCatalogue(n)[1].mask ELSE ZeroRule(n).mask],
     b |-> [k \in 1..4 |-> IF k = 1 THEN RuleCatalogue(n)[1].bounds ELSE ZeroRule(n).bounds],
     e |-> flags]

\* the masks whose checkbox is used
ToggledMasks == {1}

\* n1Enabled || n2Enabled || n3Enabled || n4Enabled
AnyEnabled(flags) == \E k \in 1..4 : flags[k] = 1

\* the animate callbacks that are pending or inside a cycle
Chains == (IF framePending THEN 1 ELSE 0) + staleFrames + Len(cycles)

\* no animate callback is between its step and its call of readGridData
NoMicrotask == \A c \in 1..Len(cycles) : cycles[c] # "stepped"

\* the animation loop effect after a commit in which one of its
\* dependencies changed: the cleanup cancels the callback that
\* animationFrameId.current names, and the effect requests a new one when
\* `isRunning && isReady && isEnabled`
LoopEffect(running, ready, en) ==
    /\ (running /\ ready /\ en /\ ~framePending) => Chains < MaxChains
    /\ framePending' = (running /\ ready /\ en)
    /\ UNCHANGED << staleFrames, cycles, isUpdatingGridRef >>

\* the pending callbacks after one of them was called by the browser: the
\* one animationFrameId.current names (stale = FALSE) or another
Fired(stale) ==
    [pending |-> IF stale THEN framePending ELSE FALSE,
     stale   |-> IF stale THEN staleFrames - 1 ELSE staleFrames]

\* `if (isRunningRef.current) { animationFrameId.current =
\* requestAnimationFrame(animate); }` with the pending callbacks f: the
\* callback the ref named before is named by nothing any more
Reschedule(f) ==
    IF isRunningRef
      THEN /\ framePending' = TRUE
           /\ staleFrames' = f.stale + (IF f.pending THEN 1 ELSE 0)
      ELSE /\ framePending' = f.pending
           /\ staleFrames' = f.stale

\* a pending callback is called
IsPending(stale) == IF stale THEN staleFrames > 0 ELSE framePending

\* the button at line 318: setIsRunning(!isRunning)
ToggleRunning ==
    /\ mounted # "unmounted"
    /\ isRunning' = ~isRunning
    /\ isRunningRef' = ~isRunning
    /\ LoopEffect(~isRunning, isReady, isEnabled)
    /\ UNCHANGED << grid, rejected, boundaries, enabled, isEnabled >>
    /\ UNCHANGED hookVars

\* the speed slider: setAnimationSpeed
SpeedChange ==
    /\ mounted # "unmounted"
    /\ LoopEffect(isRunning, isReady, isEnabled)
    /\ UNCHANGED << grid, rejected, boundaries, isRunning, isRunningRef, enabled, isEnabled >>
    /\ UNCHANGED hookVars

\* the checkbox of mask k: setNkEnabled, then the effects that update
\* rulesDataRef and isEnabled, then the loop effect when isEnabled changed
ToggleMask(k) ==
    /\ mounted # "unmounted"
    /\ enabled' = [enabled EXCEPT ![k] = 1 - @]
    /\ isEnabled' = AnyEnabled(enabled')
    /\ IF isEnabled' # isEnabled
         THEN LoopEffect(isRunning, isReady, isEnabled')
         ELSE UNCHANGED << framePending, staleFrames, cycles, isUpdatingGridRef >>
    /\ UNCHANGED << grid, rejected, boundaries, isRunning, isRunningRef >>
    /\ UNCHANGED hookVars

\* Home's part of handleRandomize and handleClear: setIsRunning(false),
\* setGrid(newGrid); the call of resetSimulation(newGrid) is the hook's part
HandleReset(newGrid) ==
    /\ mounted # "unmounted"
    /\ isRunning' = FALSE
    /\ isRunningRef' = FALSE
    /\ grid' = newGrid
    /\ IF isRunning
         THEN LoopEffect(FALSE, isReady, isEnabled)
         ELSE UNCHANGED << framePending, staleFrames, cycles, isUpdatingGridRef >>
    /\ UNCHANGED << rejected, boundaries, enabled, isEnabled >>

\* Home's part of the commit in which isReady becomes true: the isReady
\* effect shows the empty grid, the loop effect runs again
\* (resetSimulation(emptyGrid) writes zeros over the zero-filled buffers of
\* the device just created and leaves frameNum at 0)
HomeIsReady ==
    /\ grid' = ZeroGrid(mSize)
    /\ LoopEffect(isRunning, TRUE, isEnabled)
    /\ UNCHANGED << rejected, boundaries, isRunning, isRunningRef, enabled, isEnabled >>

\* Home's part of the unmount: the cleanup of the loop effect
HomeUnmounts ==
    /\ framePending' = FALSE
    /\ UNCHANGED << grid, rejected, boundaries, isRunning, isRunningRef, enabled, isEnabled,
                    isUpdatingGridRef, staleFrames, cycles >>

\* animate returns at `if (!isRunningRef.current) { return; }`
AnimateReturns(stale) ==
    /\ IsPending(stale)
    /\ ~isRunningRef
    /\ framePending' = Fired(stale).pending
    /\ staleFrames' = Fired(stale).stale
    /\ UNCHANGED << grid, rejected, boundaries, isRunning, isRunningRef, enabled, isEnabled,
                    isUpdatingGridRef, cycles >>
    /\ UNCHANGED hookVars

\* animate does not begin a cycle, because one is in flight or because the
\* frame interval has not passed, and requests the next callback
AnimateSkips(stale) ==
    /\ IsPending(stale)
    /\ isRunningRef
    /\ Reschedule(Fired(stale))
    /\ UNCHANGED << grid, rejected, boundaries, isRunning, isRunningRef, enabled, isEnabled,
                    isUpdatingGridRef, cycles >>
    /\ UNCHANGED hookVars

\* mutant: the cycle begins whatever isUpdatingGridRef holds
MutCycleMayBegin == TRUE

\* `!isUpdatingGridRef.current` of the throttle test
CycleMayBegin == ~isUpdatingGridRef

\* Home's part of the beginning of a cycle: the flag is set and
\* runSimulationStep(rulesDataRef.current) is called
AnimateBegins(stale) ==
    /\ IsPending(stale)
    /\ isRunningRef
    /\ CycleMayBegin
    /\ isUpdatingGridRef' = TRUE
    /\ framePending' = Fired(stale).pending
    /\ staleFrames' = Fired(stale).stale
    /\ cycles' = Append(cycles, "stepped")
    /\ UNCHANGED << grid, rejected, boundaries, isRunning, isRunningRef, enabled, isEnabled >>

\* Home's part of the call of readGridData by the callback at position c,
\* when the call suspends in mapAsync
AnimateReads(c) ==
    /\ c \in 1..Len(cycles)
    /\ cycles[c] = "stepped"
    /\ cycles' = [cycles EXCEPT ![c] = "reading"]
    /\ UNCHANGED << grid, rejected, boundaries, isRunning, isRunningRef, enabled, isEnabled,
                    isUpdatingGridRef, framePending, staleFrames >>

\* Home's part of the end of the cycle of the callback at position c, which
\* was in the state pc: setGrid(nextGrid) when the read returned a grid,
\* the flag is cleared and the next callback requested
AnimateEnds(c, pc) ==
    /\ c \in 1..Len(cycles)
    /\ cycles[c] = pc
    /\ grid' = NextGrid(grid, readResult')
    /\ isUpdatingGridRef' = FALSE
    /\ cycles' = RemoveAt(cycles, c)
    /\ Reschedule([pending |-> framePending, stale |-> staleFrames])
    /\ UNCHANGED << rejected, boundaries, isRunning, isRunningRef, enabled, isEnabled >>

AnimationNext ==
    \/ NoMicrotask /\ EffectRun(TRUE) /\ UNCHANGED homeVars
    \/ NoMicrotask /\ \E i \in 1..Len(initCalls) : InitAdapter(i, TRUE) /\ UNCHANGED homeVars
    \/ NoMicrotask /\ \E i \in 1..Len(initCalls) : InitDevice(i) /\ HomeIsReady
    \/ NoMicrotask /\ \E failed \in PipelineFails : Cleanup(failed) /\ HomeUnmounts
    \/ NoMicrotask /\ ToggleRunning
    \/ NoMicrotask /\ SpeedChange
    \/ NoMicrotask /\ \E k \in ToggledMasks : ToggleMask(k)
    \/ NoMicrotask /\ \E newGrid \in ResetGrids(mSize) : HandleReset(newGrid) /\ ResetSimulation(newGrid)
    \/ NoMicrotask /\ \E newGrid \in ResetGrids(mSize) : HandleReset(newGrid) /\ ResetSimulationReturns
    \/ NoMicrotask /\ \E stale \in BOOLEAN : AnimateReturns(stale)
    \/ NoMicrotask /\ \E stale \in BOOLEAN : AnimateSkips(stale)
    \/ NoMicrotask /\ \E stale \in BOOLEAN :
          AnimateBegins(stale) /\ RunSimulationStep(HomeRules(nSize, enabled))
    \/ NoMicrotask /\ \E stale \in BOOLEAN :
          AnimateBegins(stale) /\ RunSimulationStepThrows(HomeRules(nSize, enabled), 5)
    \/ NoMicrotask /\ \E stale \in BOOLEAN : AnimateBegins(stale) /\ RunSimulationStepReturns
    \/ \E c \in 1..Len(cycles) : AnimateReads(c) /\ ReadGridData
    \/ \E c \in 1..Len(cycles) : ReadGridDataThrows /\ AnimateEnds(c, "stepped")
    \/ \E c \in 1..Len(cycles) : ReadGridDataReturns /\ AnimateEnds(c, "stepped")
    \/ NoMicrotask /\ \E c \in 1..Len(cycles) : ReadMapResolves /\ AnimateEnds(c, "reading")
    \/ NoMicrotask /\ \E c \in 1..Len(cycles) : ReadMapRejects /\ AnimateEnds(c, "reading")

AnimationSpec == Init /\ [][AnimationNext]_vars

\* the continuation of an animate callback inside its cycle: the microtask
\* after the step, or the settlement of the mapAsync promise
CycleProgress ==
    \/ \E c \in 1..Len(cycles) : AnimateReads(c) /\ ReadGridData
    \/ \E c \in 1..Len(cycles) : ReadGridDataThrows /\ AnimateEnds(c, "stepped")
    \/ \E c \in 1..Len(cycles) : ReadGridDataReturns /\ AnimateEnds(c, "stepped")
    \/ NoMicrotask /\ \E c \in 1..Len(cycles) : ReadMapResolves /\ AnimateEnds(c, "reading")
    \/ NoMicrotask /\ \E c \in 1..Len(cycles) : ReadMapRejects /\ AnimateEnds(c, "reading")

\* the animation loop when the browser runs every microtask and settles
\* every mapAsync promise
AnimationLiveSpec == AnimationSpec /\ WF_vars(CycleProgress)

(***************************************************************************)
(* The boundary inputs of a mask editor: handleBoundaryChange(key, value)  *)
(* with the text of the input as a sequence of characters.                 *)
(***************************************************************************)
\* the characters typed: two digits, a sign, white space and a character
\* that is neither (a letter, a point)
Chars == { "0", "7", "-", " ", "x" }
InputValues == UNION { [1..n -> Chars] : n \in 0..MaxInput }

\* keyof Boundaries
BoundaryKeys == { "lowerStable", "upperStable", "lowerBorn", "upperBorn" }

DigitChars == { "0", "1", "2", "3", "4", "5", "6", "7", "8", "9" }
DigitValue(c) ==
    CASE c = "0" -> 0 [] c = "1" -> 1 [] c = "2" -> 2 [] c = "3" -> 3 [] c = "4" -> 4
      [] c = "5" -> 5 [] c = "6" -> 6 [] c = "7" -> 7 [] c = "8" -> 8 [] c = "9" -> 9

\* parseInt step 2: the text without its leading white space
RECURSIVE SkipWhite(_)
SkipWhite(text) ==
    IF text # << >> /\ text[1] = " " THEN SkipWhite(Tail(text)) ELSE text

\* parseInt: the length of the longest prefix of text made of digits
RECURSIVE DigitPrefix(_)
DigitPrefix(text) ==
    IF text # << >> /\ text[1] \in DigitChars THEN 1 + DigitPrefix(Tail(text)) ELSE 0

\* the number the decimal digits denote
RECURSIVE DecimalValue(_)
DecimalValue(digits) ==
    IF digits = << >>
      THEN 0
      ELSE 10 * DecimalValue(SubSeq(digits, 1, Len(digits) - 1)) + DigitValue(digits[Len(digits)])

\* parseInt(value, 10): white space is skipped, a sign is read, then the
\* digits up to the first character that is not one; NaN when there is no
\* digit
ParseInt(value) ==
    LET trimmed  == SkipWhite(value)
        signed   == trimmed # << >> /\ trimmed[1] \in { "-", "+" }
        unsigned == IF signed THEN Tail(trimmed) ELSE trimmed
        len      == DigitPrefix(unsigned)
        number   == DecimalValue(SubSeq(unsigned, 1, len))
    IN  IF len = 0
          THEN [nan |-> TRUE, number |-> 0]
          ELSE [nan |-> FALSE,
                number |-> IF signed /\ trimmed[1] = "-" THEN 0 - number ELSE number]

IsNaN(numValue) == numValue.nan
MathMin(a, b) == IF a <= b THEN a ELSE b
MathMax(a, b) == IF a >= b THEN a ELSE b

\* mutant: the parsed number is stored as it is
MutProperVal(value, size) ==
    LET numValue == ParseInt(value)
    IN  IF IsNaN(numValue) THEN 0 ELSE numValue.number

\* `isNaN(numValue) ? 0 : Math.min(Math.max(0, numValue), size * size)`
ProperVal(value, size) ==
    LET numValue == ParseInt(value)
    IN  IF IsNaN(numValue) THEN 0 ELSE MathMin(MathMax(0, numValue.number), size * size)

\* handleBoundaryChange(key, value) of the editor of mask n1
HandleBoundaryChange(key, value) ==
    /\ IF enabled[1] = 0
         THEN UNCHANGED boundaries
         ELSE boundaries' = [boundaries EXCEPT ![key] = ProperVal(value, nSize)]
    /\ UNCHANGED << grid, rejected, animVars >>
    /\ UNCHANGED hookVars

BoundaryNext ==
    \/ \E k \in ToggledMasks : ToggleMask(k)
    \/ \E key \in BoundaryKeys, value \in InputValues : HandleBoundaryChange(key, value)

BoundarySpec == Init /\ [][BoundaryNext]_vars

(***************************************************************************)
(* The lifecycle alone: the effect, its cleanup and the suspended init     *)
(* calls, as Home drives them (mount, changes of mSize, unmount).          *)
(***************************************************************************)
LifecycleNext ==
    \/ \E hasGpu \in BOOLEAN : EffectRun(hasGpu) /\ UNCHANGED homeVars
    \/ \E m \in GridSizes, hasGpu \in BOOLEAN, failed \in PipelineFails :
          DepsChange(m, hasGpu, failed) /\ UNCHANGED homeVars
    \/ \E i \in 1..Len(initCalls), adapter \in BOOLEAN : InitAdapter(i, adapter) /\ UNCHANGED homeVars
    \/ \E i \in 1..Len(initCalls) : InitDevice(i) /\ UNCHANGED homeVars
    \/ \E failed \in PipelineFails : Cleanup(failed) /\ UNCHANGED homeVars

LifecycleSpec == Init /\ [][LifecycleNext]_vars

(***************************************************************************)
(* The contracts of init and of the cleanup: the lifecycle with init also  *)
(* called directly in any state, and with any of the cleanup's destroy     *)
(* calls throwing.                                                         *)
(***************************************************************************)
\* the sets of destroy calls that throw: the pipeline's and one other, or all
ReleaseFailures == { {"pipeline", name} : name \in ReleaseNames } \cup { ReleaseNames }

ContractNext ==
    \/ \E hasGpu \in BOOLEAN : EffectRun(hasGpu) /\ UNCHANGED homeVars
    \/ \E hasGpu \in BOOLEAN : InitCall(hasGpu) /\ UNCHANGED homeVars
    \/ \E m \in GridSizes, hasGpu \in BOOLEAN, failed \in ReleaseFailures :
          DepsChange(m, hasGpu, failed) /\ UNCHANGED homeVars
    \/ \E i \in 1..Len(initCalls), adapter \in BOOLEAN : InitAdapter(i, adapter) /\ UNCHANGED homeVars
    \/ \E i \in 1..Len(initCalls) : InitDevice(i) /\ UNCHANGED homeVars
    \/ \E failed \in ReleaseFailures : Cleanup(failed) /\ UNCHANGED homeVars

ContractSpec == Init /\ [][ContractNext]_vars

(***************************************************************************)
(* The kernel alone: one dispatch on every input of the bounded families.  *)
(***************************************************************************)
\* the contents of the output buffer before the dispatch: every cell
\* differs from the input's
Stale(cells) == [i \in 1..Len(cells) |-> 1 - cells[i]]

KernelPayloads == Payloads(NSize) \cup EmptyRulePayloads(NSize)

KernelInit ==
    /\ EngineInit
    /\ kIn \in Grids(GridSize)
    /\ kRules \in KernelPayloads
    /\ kOut = Stale(kIn)
    /\ kPc = "input"
    /\ globalId = 0
    /\ stored = << >>
    /\ neighbors = << >>

KernelDispatch ==
    /\ kPc = "input"
    /\ kOut' = Dispatch(kIn, kOut, kRules.n, ParamsArray(mSize, nSize, kRules),
                        WorkgroupCount(mSize))
    /\ kPc' = "done"
    /\ UNCHANGED << kIn, kRules, globalId, stored, neighbors >>
    /\ UNCHANGED engineVars
    /\ UNCHANGED homeVars

KernelNext == KernelDispatch

KernelSpec == KernelInit /\ [][KernelNext]_vars

(***************************************************************************)
(* One dispatch, invocation by invocation: dispatchWorkgroups(wc, wc) of   *)
(* the 8x8 workgroup runs main once for every global_id of the square of   *)
(* side 8 * wc. The invocations store to different words or to none, so    *)
(* the order they run in does not show in what is stored where; they are   *)
(* taken row by row.                                                       *)
(***************************************************************************)
\* the side of the square of invocations of a dispatch for grid size m
DispatchSide(m) == 8 * WorkgroupCount(m)

\* global_id.x and global_id.y of the next invocation
GlobalIdX == globalId % DispatchSide(mSize)
GlobalIdY == globalId \div DispatchSide(mSize)

\* the parameters of the dispatch: those of Home's initial rule data
DispatchParams == ParamsArray(mSize, nSize, RulesDataOf(nSize, 0, << 1, 0, 0, 0 >>))

DispatchInit ==
    /\ mSize \in 1..MaxGridSize
    /\ nSize = NSize
    /\ mounted = "pending"
    /\ refs = NullRefs
    /\ isReady = FALSE
    /\ frameNum = 0
    /\ gpu = << >>
    /\ initCalls = << >>
    /\ readCall = NoCall
    /\ readResult = NoRead
    /\ hist = NoHist
    /\ initReturned = 0
    /\ grid = NoGrid
    /\ rejected = {}
    /\ AnimationIdle
    /\ boundaries = InitialBoundaries
    /\ kIn = << >>
    /\ kRules = << >>
    /\ kOut = << >>
    /\ kPc = "input"
    /\ globalId = 0
    /\ stored = << >>
    /\ neighbors = << >>

\* an invocation that returns at the bounds check
MainReturns ==
    /\ kPc = "input"
    /\ globalId < DispatchSide(mSize) * DispatchSide(mSize)
    /\ OutOfGrid(DispatchParams, GlobalIdX, GlobalIdY)
    /\ globalId' = globalId + 1
    /\ UNCHANGED << stored, neighbors, kIn, kRules, kOut, kPc >>
    /\ UNCHANGED engineVars

\* an invocation that goes on: it stores once to gridOut[flat_index], in
\* the branch of the disabled rule sets or at the end of main
MainStores ==
    /\ kPc = "input"
    /\ globalId < DispatchSide(mSize) * DispatchSide(mSize)
    /\ ~OutOfGrid(DispatchParams, GlobalIdX, GlobalIdY)
    /\ stored' = Append(stored, FlatIndex(DispatchParams, GlobalIdX, GlobalIdY))
    /\ globalId' = globalId + 1
    /\ UNCHANGED << neighbors, kIn, kRules, kOut, kPc >>
    /\ UNCHANGED engineVars

\* every invocation of the dispatch has run
DispatchEnds ==
    /\ kPc = "input"
    /\ globalId = DispatchSide(mSize) * DispatchSide(mSize)
    /\ kPc' = "done"
    /\ UNCHANGED << globalId, stored, neighbors, kIn, kRules, kOut >>
    /\ UNCHANGED engineVars

DispatchNext ==
    \/ MainReturns /\ UNCHANGED homeVars
    \/ MainStores /\ UNCHANGED homeVars
    \/ DispatchEnds /\ UNCHANGED homeVars

DispatchSpec == DispatchInit /\ [][DispatchNext]_vars

(***************************************************************************)
(* One scan, pass by pass: the two nested loops of main for one invocation *)
(* inside the grid, for grid sizes and neighbourhood sizes that are        *)
(* independent of each other (the hook takes any mSize and nSize).         *)
(***************************************************************************)
\* the passes of the loop body begun so far: the pass of the centre ends at
\* the continue and records nothing
ScanPasses ==
    IF Len(neighbors) >= (nSize * nSize) \div 2
      THEN Len(neighbors) + 1
      ELSE Len(neighbors)

\* dy and dx of the next pass
ScanDy == (ScanPasses \div nSize) - KernelRadius(DispatchParams)
ScanDx == (ScanPasses % nSize) - KernelRadius(DispatchParams)

ScanInit ==
    /\ mSize \in 1..MaxScanGrid
    /\ nSize \in { 2 * r + 1 : r \in 0..MaxScanRadius }
    /\ mounted = "pending"
    /\ refs = NullRefs
    /\ isReady = FALSE
    /\ frameNum = 0
    /\ gpu = << >>
    /\ initCalls = << >>
    /\ readCall = NoCall
    /\ readResult = NoRead
    /\ hist = NoHist
    /\ initReturned = 0
    /\ grid = NoGrid
    /\ rejected = {}
    /\ AnimationIdle
    /\ boundaries = InitialBoundaries
    /\ kIn = << >>
    /\ kRules = << >>
    /\ kOut = << >>
    /\ kPc = "input"
    /\ globalId \in 0..(8 * 8 - 1)
    /\ ~OutOfGrid(DispatchParams, GlobalIdX, GlobalIdY)
    /\ stored = << >>
    /\ neighbors = << >>

\* one pass of the loop body that does not end at the continue: neighborY
\* and neighborX are computed
ScanPass ==
    /\ kPc = "input"
    /\ ScanPasses < nSize * nSize
    /\ neighbors' = Append(neighbors,
                           [dy        |-> ScanDy,
                            dx        |-> ScanDx,
                            neighborY |-> NeighborY(DispatchParams, GlobalIdY, ScanDy),
                            neighborX |-> NeighborX(DispatchParams, GlobalIdX, ScanDx)])
    /\ UNCHANGED << globalId, stored, kIn, kRules, kOut, kPc >>
    /\ UNCHANGED engineVars

ScanNext == ScanPass /\ UNCHANGED homeVars

ScanSpec == ScanInit /\ [][ScanNext]_vars

(***************************************************************************)
(* The blinker scenario: a hook of grid size 5 and neighbourhood size 3 is *)
(* brought up, reset once to the horizontal blinker, stepped under         *)
(* Conway's rule and read back.                                            *)
(***************************************************************************)
\* the position of cell (x, y) in a flattened grid of side m
CellIndex(m, x, y) == y * m + x + 1

\* the horizontal line (1,2), (2,2), (3,2) and the vertical line (2,1),
\* (2,2), (2,3) of the 5 x 5 grid
HorizontalBlinker ==
    GridOf(5, { CellIndex(5, 1, 2), CellIndex(5, 2, 2), CellIndex(5, 3, 2) })
VerticalBlinker ==
    GridOf(5, { CellIndex(5, 2, 1), CellIndex(5, 2, 2), CellIndex(5, 2, 3) })

\* rulesData of Home in its initial state (n1 = initializeConways, b1 =
\* 2, 3, 3, 3, e1 = 1, the other rule sets zero and disabled), and the same
\* with another rule of the catalogue in the three disabled rule sets
BlinkerRules ==
    { [n |-> [k \in 1..4 |-> IF k = 1 THEN RuleCatalogue(3)[1].mask ELSE r.mask],
       b |-> [k \in 1..4 |-> IF k = 1 THEN RuleCatalogue(3)[1].bounds ELSE r.bounds],
       e |-> << 1, 0, 0, 0 >>] :
      r \in { ZeroRule(3), RuleCatalogue(3)[2], RuleCatalogue(3)[3], RuleCatalogue(3)[4] } }

BlinkerInit ==
    /\ mSize = 5
    /\ nSize = 3
    /\ mounted = "pending"
    /\ refs = NullRefs
    /\ isReady = FALSE
    /\ frameNum = 0
    /\ gpu = << >>
    /\ initCalls = << >>
    /\ readCall = NoCall
    /\ readResult = NoRead
    /\ hist = NoHist
    /\ initReturned = 0
    /\ grid = NoGrid
    /\ rejected = {}
    /\ AnimationIdle
    /\ boundaries = InitialBoundaries
    /\ KernelIdle

\* the hook is mounted and initialised; steps are taken before and after
\* the one reset, reads after it
BlinkerNext ==
    \/ EffectRun(TRUE) /\ UNCHANGED homeVars
    \/ \E i \in 1..Len(initCalls) : InitAdapter(i, TRUE) /\ UNCHANGED homeVars
    \/ \E i \in 1..Len(initCalls) : InitDevice(i) /\ UNCHANGED homeVars
    \/ \E rd \in BlinkerRules : RunSimulationStep(rd) /\ UNCHANGED homeVars
    \/ ~hist.reset /\ ResetSimulation(HorizontalBlinker) /\ UNCHANGED homeVars
    \/ hist.reset /\ ReadGridData /\ UNCHANGED homeVars
    \/ ReadMapResolves /\ UNCHANGED homeVars

BlinkerSpec == BlinkerInit /\ [][BlinkerNext]_vars

(***************************************************************************)
(* Properties of the engine (Spec).                                        *)
(***************************************************************************)
\* the contents of the grid buffer named name of the device the refs hold
Held(name) == gpu[refs.device][name]

\* C1: parity correctness. Whenever the engine is ready, the buffer that
\* readGridData copies from holds the generation reached by the steps
\* dispatched since the last reset (hist.gen, the hist.n-th generation of
\* the grid of that reset), whatever the parity of frameNum was before the
\* reset.
ParityCorrectness ==
    ReadGuard => Held(CurrentResultBuffer(frameNum)) = hist.gen

\* C1 witness: two steps after a reset made at an odd frame, the generation
\* has an alive cell and differs from the one before it.
ParityCorrectnessWitness ==
    /\ ReadGuard
    /\ hist.reset
    /\ hist.parity = 1
    /\ hist.n = 2
    /\ hist.gen # ZeroGrid(mSize)
    /\ Held("gridBufferA") # Held("gridBufferB")

\* the bindings of configuration A and of configuration B
ConfigurationA == [input |-> "gridBufferA", output |-> "gridBufferB"]
ConfigurationB == [input |-> "gridBufferB", output |-> "gridBufferA"]

\* C2: a dispatching step (the only step that increments frameNum) uses
\* configuration A exactly when frameNum is even and configuration B when it
\* is odd; its input and output are two distinct buffers, the input is left
\* as it was and the output receives the kernel's result on the input; and
\* the input is the buffer a readGridData just before the step copies from.
StepSelectsByParity ==
    [][ frameNum' = frameNum + 1 =>
          LET d   == refs.device
              cfg == gpu[d][SelectBindGroup(frameNum)]
          IN  /\ cfg = (IF frameNum % 2 = 0 THEN ConfigurationA ELSE ConfigurationB)
              /\ cfg.input # cfg.output
              /\ cfg.input = CurrentResultBuffer(frameNum)
              /\ gpu'[d][cfg.input] = gpu[d][cfg.input]
              /\ gpu'[d][cfg.output] =
                    Dispatch(gpu[d][cfg.input], gpu[d][cfg.output], gpu'[d].rulesBuffer,
                             gpu'[d].paramsBuffer, WorkgroupCount(mSize)) ]_vars

\* C2 witness: a step has been dispatched at frame 0 and another at frame 1,
\* and the two grid buffers differ.
StepSelectsByParityWitness ==
    /\ StepGuard
    /\ frameNum = 2
    /\ hist.n = 2
    /\ Held("gridBufferA") # Held("gridBufferB")

\* C3 as stated: a copy encoded at an even frameNum reads gridBufferB, the
\* second grid buffer.
EvenFrameCopiesSecondBuffer ==
    (readCall.device # NULL /\ readCall.frame % 2 = 0) => readCall.source = "gridBufferB"

\* C3 as amended: a copy encoded at an even frameNum reads gridBufferA (the
\* first grid buffer, which configuration B binds as output), a copy encoded
\* at an odd frameNum reads gridBufferB; and until the call resumes the
\* staging buffer holds the generation that was current at the copy.
CopyReadsLastOutput ==
    readCall.device # NULL =>
      /\ readCall.source = (IF readCall.frame % 2 = 0 THEN "gridBufferA" ELSE "gridBufferB")
      /\ ~gpu[readCall.device].destroyed =>
            SubSeq(gpu[readCall.device].stagingBuffer, 1, readCall.bytes) = readCall.expect

\* C3 witness: a copy encoded at frame 2 while the two grid buffers differ.
CopyReadsLastOutputWitness ==
    /\ readCall.device # NULL
    /\ ~gpu[readCall.device].destroyed
    /\ readCall.frame = 2
    /\ frameNum = 2
    /\ gpu[readCall.device].gridBufferA # gpu[readCall.device].gridBufferB
    /\ gpu[readCall.device].stagingBuffer = gpu[readCall.device].gridBufferA

\* C12: reset. While the engine is ready and no step has been dispatched
\* since the last resetSimulation(G), both grid buffers hold G and frameNum
\* is 0, whatever the parity of frameNum was before the reset; a further
\* resetSimulation(G) leaves both grid buffers and frameNum as they are;
\* and the first step dispatched after the reset has G in its input buffer.
ResetWritesBothBuffers ==
    /\ [](( hist.reset /\ hist.n = 0 /\ ReadGuard ) =>
            /\ Held("gridBufferA") = hist.gen
            /\ Held("gridBufferB") = hist.gen
            /\ frameNum = 0)
    /\ [][ ( /\ hist.reset /\ hist.n = 0 /\ ReadGuard
             /\ hist' # hist
             /\ hist'.reset /\ hist'.n = 0 /\ hist'.gen = hist.gen ) =>
             /\ gpu'[refs.device].gridBufferA = gpu[refs.device].gridBufferA
             /\ gpu'[refs.device].gridBufferB = gpu[refs.device].gridBufferB
             /\ frameNum' = frameNum ]_vars
    /\ [][ ( hist.reset /\ hist.n = 0 /\ frameNum' = frameNum + 1 ) =>
             gpu[refs.device][gpu[refs.device][SelectBindGroup(frameNum)].input] = hist.gen ]_vars

\* C12 witness: a reset to a grid with an alive cell, made at an odd
\* frameNum while the two grid buffers differed, has left both buffers equal
\* to that grid and frameNum 0.
ResetWritesBothBuffersWitness ==
    /\ ReadGuard
    /\ hist.reset
    /\ hist.parity = 1
    /\ hist.n = 0
    /\ frameNum = 0
    /\ hist.gen = GridOf(mSize, {1})
    /\ Held("gridBufferA") = hist.gen
    /\ Held("gridBufferB") = hist.gen

\* C13: round trip. A readGridData issued while no step has been dispatched
\* since the last resetSimulation(G) copies G into the staging buffer, and
\* every readGridData that resolves returns, as a Uint8Array, the grid that
\* was current when it was issued: reset(G) followed by read() returns G,
\* whatever steps and resets came before.
RoundTrip ==
    /\ [][ ( /\ readCall.device = NULL /\ readCall'.device # NULL
             /\ hist.reset /\ hist.n = 0 ) =>
             /\ readCall'.expect = hist.gen
             /\ SubSeq(gpu'[readCall'.device].stagingBuffer, 1, readCall'.bytes) = hist.gen ]_vars
    /\ [][ ( readCall.device # NULL /\ readCall' = NoCall /\ readResult'.status = "grid" ) =>
             readResult'.grid = readCall.expect ]_vars

\* C13 witness: after a step, a reset at an odd frameNum to a grid with an
\* alive cell and a read, the read has returned that grid.
RoundTripWitness ==
    /\ ReadGuard
    /\ hist.reset
    /\ hist.parity = 1
    /\ hist.n = 0
    /\ hist.gen = GridOf(mSize, {1})
    /\ readCall = NoCall
    /\ readResult.status = "grid"
    /\ readResult.grid = hist.gen

\* the engine is Ready: the guards of runSimulationStep, readGridData and
\* resetSimulation all pass
Ready == StepGuard /\ ReadGuard /\ ResetGuard

\* C14: outside Ready, runSimulationStep, readGridData and resetSimulation
\* are silent no-ops. No step taken from a state that is not Ready writes a
\* buffer of any device, submits work or changes frameNum, none of the three
\* operations passes its guard, and a read that returns there returns null.
NoOpOutsideReady ==
    /\ []( ~Ready => ( ~StepGuard /\ ~ReadGuard /\ ~ResetGuard ) )
    /\ [][ ~Ready =>
             /\ frameNum' = frameNum
             /\ hist' # hist => Ready'
             /\ \A d \in 1..Len(gpu) : gpu'[d] = gpu[d]
             /\ readCall' # readCall => readCall' = NoCall
             /\ readResult' # readResult => readResult' = ReadNull ]_vars

\* C14 witness: the device was released after at least one step; a read
\* called since has returned null, and frameNum and the released device are
\* as the release left them.
NoOpOutsideReadyWitness ==
    /\ ~Ready
    /\ mounted = "unmounted"
    /\ refs = NullRefs
    /\ isReady
    /\ frameNum >= 1
    /\ hist.n >= 1
    /\ Len(gpu) = 1
    /\ gpu[1] = Destroyed
    /\ readCall = NoCall
    /\ readResult = ReadNull

\* the devices the cleanup has destroyed
Released == { d \in 1..Len(gpu) : gpu[d].destroyed }

\* C15 as stated: no call operates on a released device, and every call
\* that returns without effect once a device has been released, a suspended
\* read included, has observed isDestroying set.
ReturnsOnDestroyingFlag ==
    /\ [][ \A d \in Released : gpu'[d] = gpu[d] ]_vars
    /\ [][ ( /\ Released # {}
             /\ ~Ready
             /\ readResult' = ReadNull
             /\ << readCall', readResult' >> # << readCall, readResult >> ) =>
             refs.isDestroying ]_vars

\* C15, amended: no call operates on a released device. The handles never
\* name a released device, so every later call fails its guard on an empty
\* handle; a read suspended in mapAsync when its device was released returns
\* null and nothing else; and isDestroying, set and cleared inside the
\* cleanup, is clear whenever a call runs.
NoUseAfterDestroy ==
    /\ [][ \A d \in Released : gpu'[d] = gpu[d] ]_vars
    /\ []( refs.device \notin Released /\ ~refs.isDestroying )
    /\ []( (Released # {} /\ refs.device = NULL) =>
             ( ~StepGuard /\ ~ReadGuard /\ ~ResetGuard ) )
    /\ [][ ( readCall.device \in Released /\ readCall' # readCall ) =>
             ( readCall' = NoCall /\ readResult' = ReadNull ) ]_vars

\* C15 witness: the cleanup has released the device while a read of it was
\* suspended in mapAsync, after a step had run.
NoUseAfterDestroyWitness ==
    /\ readCall.device \in Released
    /\ refs = NullRefs
    /\ mounted = "unmounted"
    /\ hist.n >= 1
    /\ readCall.expect = hist.gen

\* C23: with one read in flight at most, readGridData returns generation g,
\* g being the number of steps submitted since the last reset when the read
\* submitted its copy. The copy puts the generation current at that moment,
\* the output of the last step, into the staging buffer; while the read is
\* suspended no step and no reset changes the staging buffer; and the read
\* returns that generation when it resolves, however many steps and resets
\* were issued meanwhile.
ReadReturnsGenerationAtCopy ==
    /\ [][ ( readCall = NoCall /\ readCall' # NoCall ) =>
             /\ readCall'.frame = hist.n
             /\ readCall'.expect = hist.gen
             /\ SubSeq(gpu'[readCall'.device].stagingBuffer, 1, readCall'.bytes) = hist.gen ]_vars
    /\ [][ ( readCall # NoCall /\ readCall' = readCall ) =>
             \/ gpu'[readCall.device].destroyed
             \/ gpu'[readCall.device].stagingBuffer = gpu[readCall.device].stagingBuffer ]_vars
    /\ [][ ( readCall # NoCall /\ readCall' = NoCall /\ readResult'.status = "grid" ) =>
             readResult'.grid = readCall.expect ]_vars

\* C23 witness: a read has returned the grid of the last reset while two
\* steps have been submitted since that reset and the current generation is
\* another grid: the next read returns a grid two generations later.
ReadReturnsGenerationAtCopyWitness ==
    /\ Ready
    /\ hist.reset
    /\ hist.n = 2
    /\ readCall = NoCall
    /\ readResult.status = "grid"
    /\ readResult.grid = GridOf(mSize, {1})
    /\ hist.gen # readResult.grid
    /\ Held(CurrentResultBuffer(frameNum)) = hist.gen

\* the rule data of the model with rule set k enabled alone
OnlyEnabled(k) == RulesDataOf(nSize, 0, [j \in 1..4 |-> IF j = k THEN 1 ELSE 0])

\* C26: a dispatching step computes its generation with exactly the rule
\* data rd of its own call: after it the four mask buffers hold the four
\* masks of rd word for word (those of disabled rule sets too), the
\* parameter buffer holds the thresholds and flags of rd, the output buffer
\* holds the generation that rd makes of the input buffer, and the input
\* buffer, which holds the generation of the step before, is left as that
\* step made it whatever rule data that step carried.
StepUsesItsOwnRuleData ==
    [][ frameNum' = frameNum + 1 =>
          \E rd \in StepRules[nSize] :
            LET d   == refs.device
                in  == CurrentResultBuffer(frameNum)
                out == CurrentResultBuffer(frameNum')
            IN  /\ \A k \in 1..4 :
                      /\ Len(gpu'[d].rulesBuffer[k]) = Len(rd.n[k])
                      /\ \A i \in 1..Len(rd.n[k]) :
                            gpu'[d].rulesBuffer[k][i] = rd.n[k][i]
                /\ gpu'[d].paramsBuffer = ParamsArray(mSize, nSize, rd)
                /\ gpu'[d][out] = NextGeneration(gpu[d][in], mSize, nSize, rd)
                /\ gpu'[d][in] = gpu[d][in] ]_vars

\* C26 witness: two steps back to back with no read in between, the first
\* under the shift rule and the second under Conway's rule: the buffer of
\* the first step still holds the shifted cell, which Conway's rule would
\* not have produced, and the second step has made it die.
StepUsesItsOwnRuleDataWitness ==
    /\ Ready
    /\ frameNum = 2
    /\ hist.n = 2
    /\ readCall = NoCall
    /\ readResult = NoRead
    /\ LET g  == gpu[refs.device]
           G  == GridOf(mSize, {1})
       IN  /\ g.paramsBuffer = ParamsArray(mSize, nSize, OnlyEnabled(1))
           /\ g.rulesBuffer[2] = OnlyEnabled(1).n[2]
           /\ g.gridBufferB = NextGeneration(G, mSize, nSize, OnlyEnabled(2))
           /\ g.gridBufferB # NextGeneration(G, mSize, nSize, OnlyEnabled(1))
           /\ g.gridBufferA = NextGeneration(g.gridBufferB, mSize, nSize, OnlyEnabled(1))
           /\ g.gridBufferA # g.gridBufferB

\* the handles of refs.current other than the device
HandleNames ==
    { "pipeline", "gridBufferA", "gridBufferB", "rulesBuffer1", "rulesBuffer2",
      "rulesBuffer3", "rulesBuffer4", "paramsBuffer", "stagingBuffer",
      "bindGroupA", "bindGroupB" }

\* C30: in every reachable state isReady = true implies that refs.current
\* holds a device that has not been destroyed, and the pipeline, both grid
\* buffers, the four mask buffers, the parameter buffer, the staging buffer
\* and both bind groups, all of that device; so that isReady is false once
\* the cleanup has released them.
ReadyFlagImpliesResources ==
    isReady =>
        /\ refs.device # NULL
        /\ ~gpu[refs.device].destroyed
        /\ \A h \in HandleNames : refs[h] = refs.device

\* every element of the sequence a is 0 or 1
Binary(a) == \A i \in 1..Len(a) : a[i] \in {0, 1}

\* C33: the grids passed to resetSimulation holding only 0 and 1, in every
\* reachable state every cell of both grid buffers of every device is 0 or
\* 1, and so is every cell of a grid that readGridData has returned.
CellsStayBinary ==
    /\ \A d \in 1..Len(gpu) : Binary(gpu[d].gridBufferA) /\ Binary(gpu[d].gridBufferB)
    /\ Binary(readResult.grid)

\* C33 witness: after a reset to a grid with an alive cell and two steps, a
\* read has returned a grid with alive and dead cells.
CellsStayBinaryWitness ==
    /\ Ready
    /\ hist.reset
    /\ frameNum = 2
    /\ readResult.status = "grid"
    /\ readResult.grid = gpu[refs.device].gridBufferA
    /\ \E i, j \in Cells(mSize) : readResult.grid[i] = 1 /\ readResult.grid[j] = 0

\* C20: a step that throws while uploading a mask or the parameters, or
\* while encoding or submitting, is skipped. Every step of the engine that
\* dispatches no generation and resets nothing leaves frameNum and both
\* grid buffers of the held device as they are; frameNum advances only
\* together with a dispatched generation; and a step that does dispatch,
\* after whatever failed calls, reads the current generation from its input
\* buffer and leaves the next one in the buffer readGridData copies.
FailedStepIsSkipped ==
    /\ [][ ( Ready /\ refs' = refs /\ hist' = hist ) =>
             /\ frameNum' = frameNum
             /\ gpu'[refs.device].gridBufferA = gpu[refs.device].gridBufferA
             /\ gpu'[refs.device].gridBufferB = gpu[refs.device].gridBufferB ]_vars
    /\ [][ frameNum' = frameNum + 1 =>
             /\ hist'.n = hist.n + 1
             /\ gpu[refs.device][gpu[refs.device][SelectBindGroup(frameNum)].input] = hist.gen
             /\ gpu'[refs.device][CurrentResultBuffer(frameNum')] = hist'.gen ]_vars

\* C20 witness: after a reset to a grid with an alive cell, a step threw
\* once the first mask was uploaded and before the parameters were; no step
\* has succeeded, frameNum is 0 and both grid buffers hold the reset grid.
FailedStepIsSkippedWitness ==
    /\ Ready
    /\ hist.reset
    /\ hist.n = 0
    /\ frameNum = 0
    /\ hist.gen = GridOf(mSize, {1})
    /\ \E i \in 1..(nSize * nSize) : Held("rulesBuffer")[1][i] # 0
    /\ \A i \in 1..22 : Held("paramsBuffer")[i] = 0
    /\ Held("gridBufferA") = hist.gen
    /\ Held("gridBufferB") = hist.gen

(***************************************************************************)
(* Properties of the kernel (KernelSpec).                                  *)
(*                                                                         *)
(* The rules are restated here on the grid and the rule data themselves    *)
(* (two-dimensional positions, mathematical modulo, sets of offsets), not  *)
(* through the operators of main.                                          *)
(***************************************************************************)
\* v modulo m, in 0..m-1 for every integer v
Wrap(v, m) == v % m

\* the cell in column x of row y of a grid of side m
CellAt(cells, m, x, y) == cells[y * m + x + 1]

\* the entry of a mask of side n at row dy + radius, column dx + radius
MaskAt(mask, n, dx, dy) == mask[(dy + n \div 2) * n + (dx + n \div 2) + 1]

\* the offsets of a neighbourhood of side n, the centre excluded
Offsets(n) ==
    { o \in ((0 - n \div 2)..(n \div 2)) \X ((0 - n \div 2)..(n \div 2)) : o # << 0, 0 >> }

\* the number of offsets whose wrapped neighbour is alive and which the
\* mask marks valid
NeighbourCount(cells, mask, m, n, x, y) ==
    Cardinality({ o \in Offsets(n) :
                    /\ CellAt(cells, m, Wrap(x + o[1], m), Wrap(y + o[2], m)) = 1
                    /\ MaskAt(mask, n, o[1], o[2]) = 1 })

\* the decision of rule set k of the rule data rd for the cell (x, y): the
\* stable range for an alive cell, the born range for a dead one
RuleDecision(rd, k, cells, m, n, x, y) ==
    LET c == NeighbourCount(cells, rd.n[k], m, n, x, y) IN
    IF CellAt(cells, m, x, y) = 1
      THEN rd.b[k].lowerStable <= c /\ c <= rd.b[k].upperStable
      ELSE rd.b[k].lowerBorn <= c /\ c <= rd.b[k].upperBorn

\* the rule sets a payload enables
EnabledSets(rd) == { k \in 1..4 : rd.e[k] = 1 }

Coordinates(m) == (0..(m - 1)) \X (0..(m - 1))

\* the kernel's output for the input and parameters of the state, under the
\* rule data rd
KernelOutput(rd) ==
    Dispatch(kIn, Stale(kIn), rd.n, ParamsArray(mSize, nSize, rd), WorkgroupCount(mSize))

\* C4: identity when disabled. After a dispatch whose four enable flags are
\* all 0 the output buffer equals the input grid cell for cell, whatever the
\* masks and thresholds are (the output buffer held the complement before).
IdentityWhenDisabled ==
    (kPc = "done" /\ EnabledSets(kRules) = {}) => kOut = kIn

\* C4 witness: a dispatch with all flags 0 on a grid with alive and dead
\* cells, under non-trivial masks, has copied the grid.
IdentityWhenDisabledWitness ==
    /\ kPc = "done"
    /\ EnabledSets(kRules) = {}
    /\ kRules.n[1] = MaskOf(nSize, ConwayValid)
    /\ \E i, j \in Cells(mSize) : kIn[i] = 1 /\ kIn[j] = 0
    /\ kOut = kIn
    /\ kOut # Stale(kIn)

\* C5 as stated: under every combination of enable flags, the empty one
\* included, a cell is alive next iff some enabled rule set decides so.
UnionOverEverySubset ==
    kPc = "done" =>
      \A c \in Coordinates(mSize) :
        CellAt(kOut, mSize, c[1], c[2]) = 1
          <=> \E k \in EnabledSets(kRules) :
                 RuleDecision(kRules, k, kIn, mSize, nSize, c[1], c[2])

\* C5 as amended: under every non-empty combination of enable flags a cell
\* is alive next iff some enabled rule set decides so (survive test for an
\* alive cell, born test for a dead one, each on its own mask and
\* thresholds); under the empty combination every cell keeps its state.
AdditiveUnion ==
    kPc = "done" =>
      \A c \in Coordinates(mSize) :
        IF EnabledSets(kRules) = {}
          THEN CellAt(kOut, mSize, c[1], c[2]) = CellAt(kIn, mSize, c[1], c[2])
          ELSE CellAt(kOut, mSize, c[1], c[2]) = 1
                 <=> \E k \in EnabledSets(kRules) :
                        RuleDecision(kRules, k, kIn, mSize, nSize, c[1], c[2])

\* C5 witness: with at least two rule sets enabled, a dead cell that one
\* enabled rule set gives birth to and another does not is alive next, and
\* an alive cell that no enabled rule set keeps is dead next.
AdditiveUnionWitness ==
    /\ kPc = "done"
    /\ Cardinality(EnabledSets(kRules)) >= 2
    /\ \E c \in Coordinates(mSize) :
         /\ CellAt(kIn, mSize, c[1], c[2]) = 0
         /\ CellAt(kOut, mSize, c[1], c[2]) = 1
         /\ \E j, k \in EnabledSets(kRules) :
              /\ RuleDecision(kRules, j, kIn, mSize, nSize, c[1], c[2])
              /\ ~RuleDecision(kRules, k, kIn, mSize, nSize, c[1], c[2])
    /\ \E c \in Coordinates(mSize) :
         /\ CellAt(kIn, mSize, c[1], c[2]) = 1
         /\ CellAt(kOut, mSize, c[1], c[2]) = 0

\* the payload of the state with the enable flags replaced
WithFlags(flags) == [kRules EXCEPT !.e = flags]

\* the flag vectors that enable the rule sets of the state and one more,
\* and the one that enables all four; every chain E, E + {j}, ... of the
\* claim's E' is made of such steps, each from a payload of KernelPayloads
Supersets ==
    { [k \in 1..4 |-> IF k = j THEN 1 ELSE kRules.e[k]] : j \in 1..4 }
      \cup { [k \in 1..4 |-> 1] }

\* every cell alive in the output of the state is alive under flags too
AliveStaysAlive(flags) ==
    LET out == KernelOutput(WithFlags(flags)) IN
    \A i \in Cells(mSize) : kOut[i] = 1 => out[i] = 1

\* C6 as stated: for every set E of enabled rule sets, the empty one
\* included, and every E' that contains it, the cells alive next under E are
\* alive next under E'.
EnablingOnlyAddsFromAnySet ==
    kPc = "done" => \A flags \in Supersets : AliveStaysAlive(flags)

\* C6 as amended: the same for every non-empty E. (From the empty E the
\* kernel copies the grid, and an alive cell that no rule set of E' keeps
\* is dead next under E'.)
EnablingOnlyAdds ==
    (kPc = "done" /\ EnabledSets(kRules) # {}) =>
      \A flags \in Supersets : AliveStaysAlive(flags)

\* C6 witness: Conway's rule alone leaves cells alive, and enabling the
\* second rule set as well gives strictly more alive cells.
EnablingOnlyAddsWitness ==
    /\ kPc = "done"
    /\ kRules.e = << 1, 0, 0, 0 >>
    /\ kRules.n[1] = MaskOf(nSize, ConwayValid)
    /\ \E i \in Cells(mSize) : kOut[i] = 1
    /\ AliveStaysAlive(<< 1, 1, 0, 0 >>)
    /\ KernelOutput(WithFlags(<< 1, 1, 0, 0 >>)) # kOut

\* C7: per-rule decision. With exactly one rule set k enabled, the counter
\* validNeighbors_k of every cell is the number of offsets other than the
\* centre whose wrapped neighbour holds 1 and whose mask entry is 1, and the
\* cell is alive next iff it is alive and lowerStable <= counter <=
\* upperStable, or dead and lowerBorn <= counter <= upperBorn.
PerRuleDecision ==
    kPc = "done" =>
      \A k \in 1..4 :
        EnabledSets(kRules) = {k} =>
          \A c \in Coordinates(mSize) :
            LET count == NeighbourCount(kIn, kRules.n[k], mSize, nSize, c[1], c[2])
                alive == CellAt(kIn, mSize, c[1], c[2]) = 1
            IN  /\ ValidNeighbors(kIn, kRules.n, ParamsArray(mSize, nSize, kRules),
                                  c[1], c[2])[k] = count
                /\ CellAt(kOut, mSize, c[1], c[2]) = 1
                     <=> IF alive
                           THEN /\ kRules.b[k].lowerStable <= count
                                /\ count <= kRules.b[k].upperStable
                           ELSE /\ kRules.b[k].lowerBorn <= count
                                /\ count <= kRules.b[k].upperBorn

\* C7 witness: with one rule set enabled, an alive cell whose counter lies
\* in the born range and above the stable range is dead next, and a dead
\* cell whose counter lies in the stable range and below the born range
\* stays dead.
PerRuleDecisionWitness ==
    /\ kPc = "done"
    /\ \E k \in 1..4 :
         /\ EnabledSets(kRules) = {k}
         /\ \E c \in Coordinates(mSize) :
              LET count == NeighbourCount(kIn, kRules.n[k], mSize, nSize, c[1], c[2]) IN
              /\ CellAt(kIn, mSize, c[1], c[2]) = 1
              /\ kRules.b[k].lowerBorn <= count /\ count <= kRules.b[k].upperBorn
              /\ count > kRules.b[k].upperStable
              /\ CellAt(kOut, mSize, c[1], c[2]) = 0
         /\ \E c \in Coordinates(mSize) :
              LET count == NeighbourCount(kIn, kRules.n[k], mSize, nSize, c[1], c[2]) IN
              /\ CellAt(kIn, mSize, c[1], c[2]) = 0
              /\ kRules.b[k].lowerStable <= count /\ count <= kRules.b[k].upperStable
              /\ count < kRules.b[k].lowerBorn
              /\ CellAt(kOut, mSize, c[1], c[2]) = 0

\* the offsets (dx, dy) that take the cell (x, y) across an edge of the grid
CrossingOffsets(m, n, x, y) ==
    { o \in Offsets(n) : x + o[1] \notin 0..(m - 1) \/ y + o[2] \notin 0..(m - 1) }

Replacements(n) ==
    { ZeroRule(n), [mask |-> MaskOf(n, FullValid(n)), bounds |-> Boundaries(0, n * n, 0, n * n)] }

\* the payload of the state with the masks and thresholds of the rule sets
\* in D replaced by r
WithRules(D, r) ==
    [kRules EXCEPT !.n = [k \in 1..4 |-> IF k \in D THEN r.mask ELSE @[k]],
                   !.b = [k \in 1..4 |-> IF k \in D THEN r.bounds ELSE @[k]]]

\* the rule sets the payload of the state disables
DisabledSets == (1..4) \ EnabledSets(kRules)

\* C9: a disabled rule set never contributes. A payload that agrees with
\* the payload of the state on the enable flags and on the masks and
\* thresholds of every enabled rule set gives the same next grid, whatever
\* masks and thresholds its disabled rule sets have.
DisabledNeverContributes ==
    kPc = "done" =>
      \A r \in Replacements(nSize) : KernelOutput(WithRules(DisabledSets, r)) = kOut

\* C9 witness: a rule set is enabled and another, disabled, has a non-empty
\* mask; the output differs from the input and has an alive cell, and the
\* payload with the disabled rule sets replaced is a different payload.
DisabledNeverContributesWitness ==
    /\ kPc = "done"
    /\ kRules.e = << 1, 0, 0, 1 >>
    /\ kRules.n[2] = MaskOf(nSize, WestValid)
    /\ kOut # kIn
    /\ \E i \in Cells(mSize) : kOut[i] = 1
    /\ \A r \in Replacements(nSize) : WithRules({2, 3}, r) # kRules

\* the payload of the state with the centre entry of mask k set to centre[k]
WithCentres(centre) ==
    [kRules EXCEPT !.n =
        [k \in 1..4 |->
            [i \in 1..(nSize * nSize) |->
                IF i = (nSize \div 2) * nSize + (nSize \div 2) + 1 THEN centre[k] ELSE @[k][i]]]]

\* the centre entries tried: all cleared, all set, and those of the state
\* each flipped
CentreChoices ==
    { [k \in 1..4 |-> 0], [k \in 1..4 |-> 1],
      [k \in 1..4 |-> 1 - MaskAt(kRules.n[k], nSize, 0, 0)] }

\* C10: the centre is excluded from the count whatever the mask holds
\* there. A payload that differs from the payload of the state only in the
\* centre entries of the four masks gives the same next grid.
CentreExcluded ==
    kPc = "done" =>
      \A centre \in CentreChoices : KernelOutput(WithCentres(centre)) = kOut

\* C10 witness: the enabled shift rule's mask has its centre entry set, an
\* alive cell with an alive western neighbour has survived (its counter is
\* 1, not 2), and clearing the centre entries gives a different payload.
CentreExcludedWitness ==
    /\ kPc = "done"
    /\ \E k \in 1..4 :
         /\ EnabledSets(kRules) = {k}
         /\ kRules.n[k] = MaskOf(nSize, WestValid)
         /\ MaskAt(kRules.n[k], nSize, 0, 0) = 1
         /\ kRules.b[k] = Boundaries(1, 1, 1, 1)
    /\ \E c \in Coordinates(mSize) :
         /\ CellAt(kIn, mSize, c[1], c[2]) = 1
         /\ CellAt(kIn, mSize, Wrap(c[1] - 1, mSize), c[2]) = 1
         /\ CellAt(kOut, mSize, c[1], c[2]) = 1
    /\ WithCentres([k \in 1..4 |-> 0]) # kRules

\* the enabled rule sets of kRules with an empty mask and four boundaries 0
EmptyEnabledSets ==
    { k \in EnabledSets(kRules) :
        /\ \A i \in 1..(nSize * nSize) : kRules.n[k][i] = 0
        /\ kRules.b[k] = Boundaries(0, 0, 0, 0) }

\* C25: a step in which some enabled rule set has an all-zero mask and four
\* thresholds 0 makes every cell alive, whatever the grid and whatever the
\* other rule sets hold.
EmptyRuleActivatesAll ==
    ( kPc = "done" /\ EmptyEnabledSets # {} ) =>
        \A i \in Cells(mSize) : kOut[i] = 1

\* C25 witness: a dispatch on the empty grid, with the empty rule set 2
\* enabled alone, has made every cell alive.
EmptyRuleActivatesAllWitness ==
    /\ kPc = "done"
    /\ EmptyEnabledSets = {2}
    /\ kRules.e = << 0, 1, 0, 0 >>
    /\ kIn = ZeroGrid(mSize)
    /\ kOut = GridOf(mSize, Cells(mSize))

\* the parameters of the dispatch of the state
KernelParams == ParamsArray(mSize, nSize, kRules)

\* C28: for the odd neighbourhood sizes of the model, after the scan of
\* every cell each of the four counters is at most nSize^2 - 1, whatever
\* the grid and the masks, and the mask index computed for every offset of
\* the scan lies in 0 .. nSize^2 - 1.
CountersAndMaskIndicesBounded ==
    ( kPc = "done" /\ nSize % 2 = 1 ) =>
        /\ \A x \in 0..(mSize - 1), y \in 0..(mSize - 1) :
              LET counts == ValidNeighbors(kIn, kRules.n, KernelParams, x, y)
              IN  \A k \in 1..4 : counts[k] \in 0..(nSize * nSize - 1)
        /\ \A dx \in (0 - nSize \div 2)..(nSize \div 2),
              dy \in (0 - nSize \div 2)..(nSize \div 2) :
              RuleFlatIndex(KernelParams, dx, dy) \in 0..(nSize * nSize - 1)

\* C28 witness: a dispatch on the full grid with a full mask enabled, in
\* which a counter has reached nSize^2 - 1 and the scan has read the first
\* and the last entry of the mask.
CountersAndMaskIndicesBoundedWitness ==
    /\ kPc = "done"
    /\ nSize % 2 = 1
    /\ kIn = GridOf(mSize, Cells(mSize))
    /\ \E k \in EnabledSets(kRules) :
          /\ kRules.n[k] = MaskOf(nSize, FullValid(nSize))
          /\ ValidNeighbors(kIn, kRules.n, KernelParams, 0, 0)[k] = nSize * nSize - 1
    /\ RuleFlatIndex(KernelParams, 0 - nSize \div 2, 0 - nSize \div 2) = 0
    /\ RuleFlatIndex(KernelParams, nSize \div 2, nSize \div 2) = nSize * nSize - 1

\* C24: the parameters a step uploads are 22 words in the fixed order:
\* word 0 is mSize, word 1 nSize, and for k = 1..4 the words 2 + 5(k - 1) to
\* 6 + 5(k - 1) are lowerStable, upperStable, lowerBorn, upperBorn and
\* enabled of rule set k; the kernel reads each word as the field of struct
\* Params of the same name.
ParamsLayout ==
    LET p == ParamsArray(mSize, nSize, kRules) IN
    kPc # "idle" =>
        /\ DOMAIN p = 1..22
        /\ Load(p, 0) = mSize
        /\ Load(p, 1) = nSize
        /\ P_mSize(p) = mSize
        /\ P_nSize(p) = nSize
        /\ \A k \in 1..4 :
             /\ Load(p, 2 + 5 * (k - 1)) = kRules.b[k].lowerStable
             /\ Load(p, 3 + 5 * (k - 1)) = kRules.b[k].upperStable
             /\ Load(p, 4 + 5 * (k - 1)) = kRules.b[k].lowerBorn
             /\ Load(p, 5 + 5 * (k - 1)) = kRules.b[k].upperBorn
             /\ Load(p, 6 + 5 * (k - 1)) = kRules.e[k]
             /\ P_lowerStable(p, k) = kRules.b[k].lowerStable
             /\ P_upperStable(p, k) = kRules.b[k].upperStable
             /\ P_lowerBorn(p, k) = kRules.b[k].lowerBorn
             /\ P_upperBorn(p, k) = kRules.b[k].upperBorn
             /\ P_enabled(p, k) = kRules.e[k]

\* C24 witness: a dispatch has run with rule set 2 holding four different
\* thresholds (0, 1, 2, 3), enabled, and rule set 1 disabled: words 7 to 11
\* of the payload are 0, 1, 2, 3, 1 and word 6 is 0.
ParamsLayoutWitness ==
    /\ kPc = "done"
    /\ kRules.b[2] = Boundaries(0, 1, 2, 3)
    /\ kRules.e = << 0, 1, 0, 0 >>
    /\ SubSeq(ParamsArray(mSize, nSize, kRules), 7, 12) = << 0, 0, 1, 2, 3, 1 >>
    /\ kOut = KernelOutput(kRules)

(***************************************************************************)
(* Properties of the blinker scenario (BlinkerSpec).                       *)
(***************************************************************************)
\* C11: blinker. In the scenario (grid size 5, neighbourhood size 3, mask 1
\* the eight surrounding cells, stable range 2..3, born range 3..3, only
\* rule set 1 enabled, reset to the horizontal line (1,2), (2,2), (3,2)) a
\* read issued after one step returns exactly the vertical line (2,1),
\* (2,2), (2,3), a read issued after two steps returns exactly the
\* horizontal line again, and so on with period 2 (a read issued before any
\* step returns the horizontal line).
BlinkerOscillates ==
    [][ (readCall.device # NULL /\ readCall' = NoCall /\ readResult'.status = "grid") =>
          /\ readCall.frame = 0 => readResult'.grid = HorizontalBlinker
          /\ readCall.frame = 1 => readResult'.grid = VerticalBlinker
          /\ readCall.frame = 2 => readResult'.grid = HorizontalBlinker
          /\ readResult'.grid =
               (IF readCall.frame % 2 = 0 THEN HorizontalBlinker ELSE VerticalBlinker) ]_vars

\* C11 witness: the read issued after one step has returned the vertical
\* line, and the read issued after the second step has copied the
\* horizontal line into the staging buffer.
BlinkerOscillatesWitness ==
    /\ readResult.status = "grid"
    /\ readResult.grid = VerticalBlinker
    /\ readCall.device # NULL
    /\ readCall.frame = 2
    /\ hist.reset
    /\ hist.n = 2
    /\ gpu[readCall.device].stagingBuffer = HorizontalBlinker
    /\ gpu[readCall.device].gridBufferB = VerticalBlinker

(***************************************************************************)
(* Properties of the lifecycle (LifecycleSpec).                            *)
(***************************************************************************)
\* C16: the held resource set is never replaced by an init without having
\* been destroyed first, and every device ever created is either the one
\* the handles name or has been destroyed, under every interleaving of
\* suspended init calls and cleanups.
HeldOrReleased ==
    /\ []( \A d \in 1..Len(gpu) : d = refs.device \/ gpu[d].destroyed )
    /\ [][ ( refs.device # NULL /\ refs'.device # refs.device ) =>
             gpu'[refs.device].destroyed ]_vars

(***************************************************************************)
(* Properties of the contracts (ContractSpec).                             *)
(***************************************************************************)
\* C17: init is idempotent. A call made while a device is held or while
\* isDestroying is set returns at once: it allocates nothing and changes
\* neither the handles, nor isReady, nor frameNum, nor the init calls in
\* flight; and as long as the held device stays held no init call begins,
\* so isReady keeps its value and no further call is suspended.
InitIdempotent ==
    /\ [][ initReturned' # initReturned =>
             /\ refs.device # NULL \/ refs.isDestroying
             /\ UNCHANGED << mSize, nSize, mounted, refs, isReady, frameNum, gpu,
                             initCalls, readCall, readResult, hist >> ]_vars
    /\ [][ ( /\ refs.device # NULL \/ refs.isDestroying
             /\ refs' = refs ) =>
             /\ isReady' = isReady
             /\ frameNum' = frameNum
             /\ gpu' = gpu
             /\ Len(initCalls') <= Len(initCalls) ]_vars

\* C17 witness: init was called directly while a device was held and the
\* engine ready, with no other init call in flight; the device is still
\* the only one created, and the engine still ready.
InitIdempotentWitness ==
    /\ initReturned >= 1
    /\ refs.device = 1
    /\ Len(gpu) = 1
    /\ ~gpu[1].destroyed
    /\ isReady
    /\ initCalls = << >>
    /\ frameNum = 0

(***************************************************************************)
(* Properties of the lifecycle (LifecycleSpec), continued.                 *)
(***************************************************************************)
\* C18: without navigator.gpu or without an adapter init returns normally
\* and leaves the engine uninitialised. As long as no init call has obtained
\* a device every handle is empty and isReady is false once the effect has
\* run; an init call that returns for want of an adapter changes no handle,
\* no device and not isReady; and an effect run whose init call returns for
\* want of navigator.gpu leaves the handles empty and isReady false.
InitFailureStaysUninitialized ==
    /\ []( ( Len(gpu) = 0 /\ mounted # "pending" ) =>
             ( refs = NullRefs /\ ~isReady ) )
    /\ [][ ( Len(initCalls') < Len(initCalls) /\ Len(gpu') = Len(gpu) ) =>
             ( refs' = refs /\ gpu' = gpu /\ isReady' = isReady ) ]_vars
    /\ [][ ( /\ mSize' # mSize \/ (mounted = "pending" /\ mounted' = "mounted")
             /\ initCalls' = initCalls ) =>
             ( refs' = NullRefs /\ ~isReady' ) ]_vars

\* C18 witness: the effect has run, its init call has returned without a
\* device, none is in flight; the handles are empty and isReady is false.
InitFailureStaysUninitializedWitness ==
    /\ mounted = "mounted"
    /\ Len(gpu) = 0
    /\ initCalls = << >>
    /\ refs = NullRefs
    /\ ~isReady

\* C29: whenever runSimulationStep, readGridData or resetSimulation passes
\* its guard, the two grid buffers and the staging buffer the handles lead
\* to were created with mSize * mSize words for the mSize of the hook the
\* operation belongs to, and the four mask buffers with nSize * nSize
\* words, whatever changes of mSize, cleanups and suspended init calls came
\* before.
BuffersMatchSizes ==
    ( StepGuard \/ ReadGuard \/ ResetGuard ) =>
        LET g == gpu[refs.device]
        IN  /\ Len(g.gridBufferA) = mSize * mSize
            /\ Len(g.gridBufferB) = mSize * mSize
            /\ Len(g.stagingBuffer) = mSize * mSize
            /\ \A k \in 1..4 : Len(g.rulesBuffer[k]) = nSize * nSize

(***************************************************************************)
(* Properties of the contracts (ContractSpec), continued.                  *)
(***************************************************************************)
\* the effect's cleanup runs in this step: on unmount or on a change of mSize
CleanupRuns == (mounted = "mounted" /\ mounted' = "unmounted") \/ mSize' # mSize

\* C19: a cleanup that finds a device held ends with every handle empty
\* and isDestroying false, whichever of its destroy calls throw; the flag is
\* never left set; and the init call that follows a cleanup (when mSize
\* has changed) passes its guard, so that the engine can become ready again.
DestroyAlwaysCompletes ==
    /\ [][ ( refs.device # NULL /\ CleanupRuns ) => refs' = NullRefs ]_vars
    /\ []( ~refs.isDestroying )
    /\ [][ mSize' # mSize => ( ~isReady' /\ Len(initCalls') >= Len(initCalls) ) ]_vars

\* C19 witness: the cleanup released the first device's grid buffer while
\* the destroy call on the device itself threw; the handles were emptied all
\* the same, and a later init call has made the engine ready with a second
\* device.
DestroyAlwaysCompletesWitness ==
    /\ Len(gpu) = 2
    /\ ~gpu[1].destroyed
    /\ gpu[1].gridBufferA = << >>
    /\ refs.device = 2
    /\ ~refs.isDestroying
    /\ ~gpu[2].destroyed
    /\ isReady
    /\ initCalls = << >>

(***************************************************************************)
(* Properties of one dispatch (DispatchSpec).                              *)
(***************************************************************************)
\* the least c with 8 * c >= m
CeilOfEighth(m) == CHOOSE c \in 0..m : 8 * c >= m /\ 8 * (c - 1) < m

\* the number of stores made to word i (from 0) of the output buffer
StoresTo(i) == Cardinality({ j \in 1..Len(stored) : stored[j] = i })

\* C27: for every grid size from 1 to MaxGridSize, the dispatch runs the
\* invocations of ceil(gridSize / 8) workgroups of 8x8 per axis; when they
\* have all run every cell (x, y) with x, y < gridSize has been stored to
\* exactly once; at no time is a word stored to twice or a word outside the
\* gridSize^2 words of the buffer stored to; and an invocation with
\* x >= gridSize or y >= gridSize stores nothing.
EachCellWrittenOnce ==
    /\ [] ( /\ \A j \in 1..Len(stored) : stored[j] \in 0..(mSize * mSize - 1)
            /\ \A i \in 0..(mSize * mSize - 1) : StoresTo(i) <= 1
            /\ kPc = "done" =>
                  /\ globalId = (8 * CeilOfEighth(mSize)) * (8 * CeilOfEighth(mSize))
                  /\ \A x \in 0..(mSize - 1), y \in 0..(mSize - 1) :
                        StoresTo(y * mSize + x) = 1 )
    /\ [][ ( \/ globalId % (8 * CeilOfEighth(mSize)) >= mSize
             \/ globalId \div (8 * CeilOfEighth(mSize)) >= mSize ) =>
              stored' = stored ]_vars

\* C27 witness: the dispatch for grid size 9 has ended: two workgroups per
\* axis, 256 invocations, 81 stores.
EachCellWrittenOnceWitness ==
    /\ kPc = "done"
    /\ mSize = 9
    /\ globalId = 256
    /\ Len(stored) = 81

(***************************************************************************)
(* Properties of one scan (ScanSpec).                                      *)
(***************************************************************************)
\* C32: for every grid size from 1 to MaxScanGrid, every odd neighbourhood
\* size up to 2 * MaxScanRadius + 1, every cell and every offset of the
\* scan, the wrapped row and the wrapped column the kernel computes lie in
\* 0 .. mSize - 1 and the flattened neighbour index in 0 .. mSize^2 - 1.
WrappedNeighborInGrid ==
    \A j \in 1..Len(neighbors) :
        /\ neighbors[j].neighborY \in 0..(mSize - 1)
        /\ neighbors[j].neighborX \in 0..(mSize - 1)
        /\ NeighborFlatIndex(DispatchParams, GlobalIdX, GlobalIdY,
                             neighbors[j].dx, neighbors[j].dy) \in 0..(mSize * mSize - 1)

(***************************************************************************)
(* Properties of Home (HomeSpec).                                          *)
(***************************************************************************)
\* a readGridData call returns in this step
ReadCompletes == readResult' # readResult \/ (readCall # NoCall /\ readCall' = NoCall)

\* C21: a readGridData call that fails in its copy or in its map returns
\* null: the step in which any read returns changes neither frameNum nor a
\* grid buffer of any device; when it returns null the grid Home shows is
\* kept, and a read replaces the shown grid only by the grid it returns.
FailedReadKeepsGrid ==
    [][ ReadCompletes =>
          /\ frameNum' = frameNum
          /\ \A d \in 1..Len(gpu) : /\ gpu'[d].gridBufferA = gpu[d].gridBufferA
                                     /\ gpu'[d].gridBufferB = gpu[d].gridBufferB
          /\ readResult'.status \in { "null", "grid" }
          /\ readResult' = ReadNull => grid' = grid
          /\ grid' # grid => ( readResult'.status = "grid" /\ grid' = readResult'.grid ) ]_vars

\* C21 witness: Home shows a generation it has read after a step, which is
\* none of the grids passed to resetSimulation, and the last read, made
\* later with the engine still ready, has returned null.
FailedReadKeepsGridWitness ==
    /\ Ready
    /\ readCall = NoCall
    /\ readResult = ReadNull
    /\ hist.n >= 1
    /\ grid = hist.gen
    /\ grid \notin ResetGrids(mSize)

(***************************************************************************)
(* Properties of Home with failing device calls (FaultSpec).               *)
(***************************************************************************)
\* C22: no function of the hook (init, runSimulationStep, readGridData,
\* resetSimulation, the cleanup) throws or returns a rejected promise,
\* whatever call into the device fails during it.
NothingPropagates == rejected = {}

\* C31: after a readGridData call has completed, with a grid or with null,
\* the staging buffer is unmapped: while no read is suspended no device that
\* is not destroyed has its staging buffer mapped, so that a read issued in
\* the Ready state can be suspended in mapAsync and succeed.
StagingUnmappedAfterRead ==
    readCall = NoCall =>
        \A d \in 1..Len(gpu) : ~gpu[d].destroyed => ~gpu[d].stagingMapped

(***************************************************************************)
(* Properties of the animation loop (AnimationSpec)                        *)
(***************************************************************************)
\* C34: after Randomize or Clear, once every animation cycle that was in
\* flight has finished (and before a later cycle steps the engine), the
\* grid shown equals the grid that reset wrote to the engine: a read that
\* was suspended at the reset never overwrites it with a generation from
\* before the reset.
ShownGridIsResetGrid ==
    ( hist.reset /\ hist.n = 0 /\ cycles = << >> ) => grid = hist.gen

\* C35: the animation loop never has two step-then-read cycles in flight:
\* the updating flag is set exactly while a cycle is in flight, a cycle
\* begins only while the flag is false and sets it, the end of a cycle
\* clears it however the step and the read ended, and a set flag is always
\* cleared again, so the flag never blocks the loop forever.
OneCycleInFlight ==
    /\ []( Len(cycles) <= 1 /\ (isUpdatingGridRef <=> cycles # << >>) )
    /\ [][ Len(cycles') > Len(cycles) => (~isUpdatingGridRef /\ isUpdatingGridRef') ]_vars
    /\ [][ Len(cycles') < Len(cycles) => ~isUpdatingGridRef' ]_vars
    /\ ( isUpdatingGridRef ~> ~isUpdatingGridRef )

\* a cycle is in flight while another animate callback is pending: the
\* callback may be called before the cycle ends
OneCycleInFlightWitness ==
    /\ cycles = << "reading" >>
    /\ isUpdatingGridRef
    /\ isRunningRef
    /\ framePending

\* C36: at any time at most one animation-loop chain is alive: at most one
\* animate callback is requested or inside its cycle, under every
\* interleaving of Start, Stop, speed changes and mask toggles with a
\* suspended animate callback.
OneChainAlive == Chains <= 1

\* C37: auto-pause. While all four masks are disabled no cycle begins: once
\* they are all disabled and the cycle in flight has finished, the animation
\* loop issues no further step until some mask is enabled again.
NoStepWhileAllDisabled ==
    [][ ( ~AnyEnabled(enabled) /\ ~AnyEnabled(enabled') ) =>
            Len(cycles') <= Len(cycles) ]_vars

(***************************************************************************)
(* Properties of the boundary inputs (BoundarySpec)                        *)
(***************************************************************************)
\* the text holds no digit
NonNumeric(value) == \A i \in 1..Len(value) : value[i] \notin DigitChars
NonNumericValues == { value \in InputValues : NonNumeric(value) }

\* C38: after any sequence of boundary edits each of lowerStable,
\* upperStable, lowerBorn and upperBorn is an integer in 0..size * size; an
\* input without a digit becomes 0; an edit made while the mask is disabled
\* changes nothing.
BoundariesStayInRange ==
    /\ []( \A key \in BoundaryKeys : boundaries[key] \in 0..(nSize * nSize) )
    /\ [][ enabled[1] = 1 =>
             \A key \in BoundaryKeys, value \in NonNumericValues :
                 HandleBoundaryChange(key, value) => boundaries'[key] = 0 ]_vars
    /\ [][ enabled[1] = 0 => boundaries' = boundaries ]_vars

\* edits have set one boundary to 0 and clamped another to size * size, and
\* the mask was disabled afterwards
BoundariesStayInRangeWitness ==
    /\ boundaries.lowerBorn = 0
    /\ boundaries.upperBorn = nSize * nSize
    /\ enabled[1] = 0

====
